---- MODULE Spec2Model ----
(***************************************************************************)
(* Remote synchronisation and merge engine of the prompt template         *)
(* registry (index.js: compareVersions, validateRemoteSchema,              *)
(* mergeRegistries, loadFromCache, saveToCache, fetchRemoteRegistry,       *)
(* sync).                                                                  *)
(*                                                                         *)
(* Data representation                                                     *)
(*   version string   a sequence of its dot-separated components, so       *)
(*                    "1.0" is <<"1","0">> and a.split('.') is the         *)
(*                    sequence itself; two sequences are the same key      *)
(*                    exactly when the strings are equal                   *)
(*   versions map     a function whose DOMAIN is the set of own keys       *)
(*   registry         a function from the prompt ids present to entries    *)
(*                    [latest, versions]                                   *)
(*   version record   [body, fields]: the content of the record and the    *)
(*                    names of the fields it carries                       *)
(* Prompt ids are ordinary own keys of a JSON object.  Object.entries is   *)
(* taken in the fixed orders IdSeq and VersionSeq.                         *)
(***************************************************************************)
EXTENDS Integers, Sequences, FiniteSets, TLC

VARIABLES
  registry,          \* the in-memory local registry (module-level `registry`)
  registryMetadata,  \* [localVersion, lastSync, syncUrl, schemaVersion]
  disk,              \* the content of registry.json
  cache,             \* the cache files: url -> [timestamp, url, data]
  now,               \* Date.now(), in units of the cache ttl (one hour)
  started,           \* the number of sync invocations so far
  turn,              \* the invocation running its synchronous first part
  pc,                \* per invocation: where it stands
  syncOptions,       \* per invocation: the options after defaulting
  result,            \* per invocation: the SyncResult under construction
  fetchState,        \* per invocation: the locals of fetchRemoteRegistry while it
                     \* runs: [attempt, timer, lastError]
  call,              \* per invocation: what it has done so far (history)
  lastMerge,         \* the last call of mergeRegistries (history)
  trustCheck,        \* the last call of isTrustedDomain on its own (history)
  cacheCall,         \* the last call of loadFromCache or saveToCache on its
                     \* own (history)
  versionCheck,      \* the calls of compareVersions on three version strings
                     \* (history)
  getCall,           \* the last call of get: its arguments, where it stands
                     \* and what it has done (history)
  searchCall,        \* the same for the last call of search (history)
  configCall,        \* the last run of loadConfig and the trust check under
                     \* the configuration it built (history)
  variantCall        \* the last call of getPromptVariant (history)

\* A value that may be null is a sequence: <<>> for null, <<x>> for x.
Null == <<>>
Some(x) == <<x>>

----------------------------------------------------------------------------
(* Version strings *)

V1  == <<"1">>
V10 == <<"1", "0">>
V2  == <<"2">>
S10 == <<"1", "0">>
S20 == <<"2", "0">>
S30 == <<"3", "0">>

PromptIds  == {"p", "q"}
IdSeq      == <<"p", "q">>
Versions   == {V1, V10, V2}
VersionSeq == <<V1, V10, V2>>

\* Number(component) for the components that parse as a number; every other
\* component is NaN
NumVal ==
  ("0" :> 0) @@ ("1" :> 1) @@ ("2" :> 2) @@ ("3" :> 3) @@ ("10" :> 10)
  @@ ("" :> 0)

\* PartOrZero with -1 for a missing component
PartOrMinusOne(parts, i) ==
  IF i > Len(parts) THEN -1
  ELSE IF parts[i] \in DOMAIN NumVal THEN NumVal[parts[i]] ELSE 0

\* aParts[i] || 0 : a missing component, NaN and 0 all give 0
PartOrZero(parts, i) ==
  IF i > Len(parts) THEN 0
  ELSE IF parts[i] \in DOMAIN NumVal THEN NumVal[parts[i]] ELSE 0

MaxOf(m, n) == IF m >= n THEN m ELSE n

RECURSIVE CompareFrom(_, _, _)
CompareFrom(a, b, i) ==
  IF i > MaxOf(Len(a), Len(b)) THEN 0
  ELSE IF PartOrZero(a, i) > PartOrZero(b, i) THEN 1
  ELSE IF PartOrZero(a, i) < PartOrZero(b, i) THEN -1
  ELSE CompareFrom(a, b, i + 1)

\* compareVersions that stops at the end of the shorter version
RECURSIVE CompareCommon(_, _, _)
CompareCommon(a, b, i) ==
  IF i > Len(a) \/ i > Len(b) THEN 0
  ELSE IF PartOrZero(a, i) > PartOrZero(b, i) THEN 1
  ELSE IF PartOrZero(a, i) < PartOrZero(b, i) THEN -1
  ELSE CompareCommon(a, b, i + 1)

compareVersionsUnpadded(a, b) == CompareCommon(a, b, 1)

compareVersions(a, b) == CompareFrom(a, b, 1)

----------------------------------------------------------------------------
(* Version-aware merger *)

RequiredFields == {"description", "prompt", "category", "tags", "version"}

Rec(b) == [body |-> b, fields |-> RequiredFields]

\* FillMissing without the test of line 492: a remote version replaces the
\* local record of the same key
FillOverwriting(lv, rv) ==
  [v \in DOMAIN lv \cup DOMAIN rv |-> IF v \in DOMAIN rv THEN rv[v] ELSE lv[v]]

\* lines 491-495 and 517-521: copy the remote versions that are missing
FillMissing(lv, rv) ==
  [v \in DOMAIN lv \cup DOMAIN rv |-> IF v \in DOMAIN lv THEN lv[v] ELSE rv[v]]

\* CopyAll that keeps a local record where both sides have the key
CopyAllKeepingLocal(lv, rv) ==
  [v \in DOMAIN lv \cup DOMAIN rv |-> IF v \in DOMAIN lv THEN lv[v] ELSE rv[v]]

\* CopyAll that leaves the remote versions alone
CopyAllRemoteOnly(lv, rv) == rv

\* lines 501-503: copy every remote version
CopyAll(lv, rv) ==
  [v \in DOMAIN lv \cup DOMAIN rv |-> IF v \in DOMAIN rv THEN rv[v] ELSE lv[v]]

\* NewerMissing with >= 0 for === 1 in line 508
NewerOrEqualMissing(le, re) ==
  {v \in DOMAIN re.versions :
     v \notin DOMAIN le.versions /\ compareVersions(v, le.latest) >= 0}

\* line 508: the remote versions the prefer-local path adds
NewerMissing(le, re) ==
  {v \in DOMAIN re.versions :
     v \notin DOMAIN le.versions /\ compareVersions(v, le.latest) = 1}

\* AddNewer without the test that the version is missing locally
AddNewerOverwriting(le, re) ==
  [v \in DOMAIN le.versions \cup NewerMissing(le, re) |->
     IF v \in DOMAIN re.versions /\ compareVersions(v, le.latest) = 1
     THEN re.versions[v] ELSE le.versions[v]]

\* lines 507-513
AddNewer(le, re) ==
  [v \in DOMAIN le.versions \cup NewerMissing(le, re) |->
     IF v \in DOMAIN le.versions THEN le.versions[v] ELSE re.versions[v]]

\* MergeEntry without line 500: prefer-remote copies the versions and
\* leaves the latest pointer
MergeEntryKeepingPointer(le, re, strategy) ==
  LET cmp == compareVersions(le.latest, re.latest) IN
  IF cmp < 0 /\ strategy = "prefer-remote" THEN
    [entry |-> [le EXCEPT !.versions = CopyAll(le.versions, re.versions)],
     updated |-> 1, warned |-> {}]
  ELSE IF cmp < 0 THEN
    [entry |-> [le EXCEPT !.versions = AddNewer(le, re)],
     updated |-> 0, warned |-> NewerMissing(le, re)]
  ELSE
    [entry |-> [le EXCEPT !.versions = FillMissing(le.versions, re.versions)],
     updated |-> 0, warned |-> {}]

\* lines 481-522: one remote entry against the local entry of the same id
MergeEntry(le, re, strategy) ==
  LET cmp == compareVersions(le.latest, re.latest) IN
  IF cmp > 0 THEN
    [entry |-> [le EXCEPT !.versions = FillMissing(le.versions, re.versions)],
     updated |-> 0, warned |-> {}]
  ELSE IF cmp < 0 THEN
    IF strategy = "prefer-remote" THEN
      [entry |-> [le EXCEPT !.latest = re.latest,
                            !.versions = CopyAll(le.versions, re.versions)],
       updated |-> 1, warned |-> {}]
    ELSE
      [entry |-> [le EXCEPT !.versions = AddNewer(le, re)],
       updated |-> 0, warned |-> NewerMissing(le, re)]
  ELSE
    [entry |-> [le EXCEPT !.versions = FillMissing(le.versions, re.versions)],
     updated |-> 0, warned |-> {}]

\* line 511: one warning per added version, in iteration order
WarningsFor(id, warned) ==
  LET vs == SelectSeq(VersionSeq, LAMBDA v : v \in warned) IN
  [i \in 1..Len(vs) |-> [id |-> id, version |-> vs[i]]]

\* lines 524-530: the schema version bookkeeping, inside the loop body
SchemaAfter(localSchema, remoteSchema) ==
  IF compareVersions(remoteSchema, localSchema) > 0 THEN remoteSchema
  ELSE localSchema

\* NewPrompt without line 477
NewPromptUncounted(acc, id, remoteEntry) ==
  [acc EXCEPT !.registry = (id :> remoteEntry) @@ acc.registry]

\* lines 474-479: an id the local registry does not have
NewPrompt(acc, id, remoteEntry) ==
  [acc EXCEPT !.registry = (id :> remoteEntry) @@ acc.registry,
              !.newPrompts = acc.newPrompts + 1]

\* lines 481-530: an id the local registry has
ExistingPrompt(acc, id, remoteEntry, remoteSchema, strategy) ==
  LET m == MergeEntry(acc.registry[id], remoteEntry, strategy) IN
  [acc EXCEPT !.registry = [acc.registry EXCEPT ![id] = m.entry],
              !.updatedPrompts = acc.updatedPrompts + m.updated,
              !.warnings = acc.warnings \o WarningsFor(id, m.warned),
              !.schemaVersion = SchemaAfter(acc.schemaVersion, remoteSchema)]

\* lines 473-531: the loop over Object.entries(remoteRegistry.prompts);
\* acc is [registry, schemaVersion, newPrompts, updatedPrompts, warnings]
RECURSIVE MergeLoop(_, _, _, _, _)
MergeLoop(acc, prompts, remoteSchema, strategy, i) ==
  IF i > Len(IdSeq) THEN acc
  ELSE
    LET id == IdSeq[i] IN
    IF id \notin DOMAIN prompts THEN
      MergeLoop(acc, prompts, remoteSchema, strategy, i + 1)
    ELSE IF id \notin DOMAIN acc.registry THEN
      MergeLoop(NewPrompt(acc, id, prompts[id]),
                prompts, remoteSchema, strategy, i + 1)
    ELSE
      MergeLoop(ExistingPrompt(acc, id, prompts[id], remoteSchema, strategy),
                prompts, remoteSchema, strategy, i + 1)

\* lines 465-534; local and localSchema are the module-level registry and
\* registryMetadata.schemaVersion the function mutates
mergeRegistries(local, localSchema, prompts, remoteSchema, strategy) ==
  MergeLoop([registry |-> local, schemaVersion |-> localSchema,
             newPrompts |-> 0, updatedPrompts |-> 0, warnings |-> <<>>],
            prompts, remoteSchema, strategy, 1)

----------------------------------------------------------------------------
(* Documents the merger is exercised on *)

Strategies == {"prefer-local", "prefer-remote", "interactive"}

\* every entry over Versions whose latest is one of its keys, all records
\* carrying the body b
EntriesOf(b) ==
  UNION {{[latest |-> l, versions |-> [v \in S |-> Rec(b)]] : l \in S} :
         S \in (SUBSET Versions) \ {{}}}

\* the documents with one entry for p, or one for q, or both; the two-id
\* documents pair q's entry with the entries of p whose latest is V1
DocsOf(pEntries, qEntry) ==
  {<<>>, ("q" :> qEntry)}
  \cup {("p" :> e) : e \in pEntries}
  \cup {("p" :> e) @@ ("q" :> qEntry) : e \in {f \in pEntries : f.latest = V1}}

LocalDocs ==
  DocsOf(EntriesOf("L"), [latest |-> V1, versions |-> (V1 :> Rec("L"))])

RemoteDocs ==
  DocsOf(EntriesOf("R"),
         [latest |-> V2, versions |-> (V1 :> Rec("R")) @@ (V2 :> Rec("R"))])

RemoteSchemas == {S20}

NoMerge ==
  [done |-> FALSE, before |-> <<>>, schemaBefore |-> S10, remote |-> <<>>,
   remoteSchema |-> S10, strategy |-> "prefer-local",
   newPrompts |-> 0, updatedPrompts |-> 0, warnings |-> <<>>]

\* the record of the last call of mergeRegistries: its arguments, the
\* registry it started from and the result it returned
MergeRecord(prompts, remoteSchema, strategy, m) ==
  [done |-> TRUE, before |-> registry,
   schemaBefore |-> registryMetadata.schemaVersion, remote |-> prompts,
   remoteSchema |-> remoteSchema, strategy |-> strategy,
   newPrompts |-> m.newPrompts, updatedPrompts |-> m.updatedPrompts,
   warnings |-> m.warnings]

InitMetadata ==
  [localVersion |-> <<"1", "0", "0">>, lastSync |-> Null, syncUrl |-> Null,
   schemaVersion |-> S10]

----------------------------------------------------------------------------
(* Trust policy *)

\* new URL(url): whether it parses, its protocol and its hostname.  A
\* hostname is a string, written as the sequence of its pieces: words and
\* dots; "evilgithub.com" is <<"evil", "github", ".", "com">>.
Url(parses, protocol, hostname) ==
  [parses |-> parses, protocol |-> protocol, hostname |-> hostname]

requireHttps == TRUE

\* lines 113-120: DEFAULT_CONFIG.security.trustedDomains, an array
DefaultTrustedDomains ==
  <<<<"githubusercontent", ".", "com">>, <<"github", ".", "com">>,
    <<"cdn", ".", "jsdelivr", ".", "net">>,
    <<"raw", ".", "githubusercontent", ".", "com">>,
    <<"unpkg", ".", "com">>, <<"jsdelivr", ".", "net">>>>

\* the domains of the list when no configuration file is found
trustedDomains ==
  {DefaultTrustedDomains[i] : i \in DOMAIN DefaultTrustedDomains}

\* lines 179-189 applied to two arrays: an array is an object and its
\* elements are strings, so target[key] = source[key] for every index of
\* source, and the elements of target past the length of source stay
MergeArrays(target, source) ==
  [i \in 1..MaxOf(Len(target), Len(source)) |->
     IF i <= Len(source) THEN source[i] ELSE target[i]]

\* lines 179-189 on the security section of a configuration; a file is
\* [trustedDomains], null when the file does not have the key
mergeConfigs(target, source) ==
  IF source.trustedDomains = Null THEN target
  ELSE [target EXCEPT !.trustedDomains = MergeArrays(@, source.trustedDomains[1])]

\* lines 136-172: the defaults, then the file of the home directory and
\* the file of the working directory, each when it exists and parses
loadConfig(homeConfig, cwdConfig) ==
  LET config == [trustedDomains |-> DefaultTrustedDomains]
      home   == IF homeConfig = Null THEN config
                ELSE mergeConfigs(config, homeConfig[1])
  IN IF cwdConfig = Null THEN home ELSE mergeConfigs(home, cwdConfig[1])

\* String.prototype.endsWith
EndsWith(str, suffix) ==
  /\ Len(str) >= Len(suffix)
  /\ SubSeq(str, Len(str) - Len(suffix) + 1, Len(str)) = suffix

\* EndsWithDomain without the dot of line 333
EndsWithDomainNoDot(hostname, domain) == EndsWith(hostname, domain)

\* line 333: hostname.endsWith(`.${domain}`)
EndsWithDomain(hostname, domain) == EndsWith(hostname, <<".">> \o domain)

\* lines 323-338 with domains as the elements of
\* config.security.trustedDomains
TrustedUnder(domains, url) ==
  IF ~url.parses THEN FALSE
  ELSE IF requireHttps /\ url.protocol # "https:" THEN FALSE
  ELSE \E domain \in domains :
         url.hostname = domain \/ EndsWithDomain(url.hostname, domain)

\* lines 323-338 under the default configuration
isTrustedDomain(url) == TrustedUnder(trustedDomains, url)

----------------------------------------------------------------------------
(* Cache *)

\* line 127: config.cache.ttl, one hour; it is the unit in which the clock and
\* the cache timestamps are counted
ttl == 1

\* a cache file that cannot be read, or whose content is no JSON
Corrupt == [corrupt |-> TRUE]

\* loadFromCache without the test of the age (line 247)
loadFromCacheAnyAge(files, url, t) ==
  IF url \in DOMAIN files /\ files[url] # Corrupt
  THEN Some(files[url].data) ELSE Null

\* lines 240-255: the cached document, or null; reading or parsing a
\* corrupt file raises inside the try, and the catch leads to return null
loadFromCache(files, url, t) ==
  IF url \in DOMAIN files /\ files[url] # Corrupt
     /\ t - files[url].timestamp < ttl
  THEN Some(files[url].data) ELSE Null

\* lines 262-276: a failed write is swallowed
saveToCache(files, url, data, t, writeOk) ==
  IF writeOk THEN (url :> [timestamp |-> t, url |-> url, data |-> data]) @@ files
  ELSE files

----------------------------------------------------------------------------
(* Schema validation *)

\* A JSON value that is not an object is [scalar |-> TRUE]; a null entry is
\* [null |-> TRUE]; an object is the record of the fields it has.
IsObject(data) == "scalar" \notin DOMAIN data
IsNull(entry)  == "null" \in DOMAIN entry

\* ValidateEntry without lines 438-451
ValidateEntryLax(entry) ==
  IF IsNull(entry) THEN "TypeError"
  ELSE IF "latest" \notin DOMAIN entry THEN "INVALID_SCHEMA"
  ELSE IF "versions" \notin DOMAIN entry THEN "INVALID_SCHEMA"
  ELSE "ok"

\* lines 430-451: one entry.  Reading entry.latest of a null entry raises
\* a TypeError, which is no SyncError.
ValidateEntry(entry) ==
  IF IsNull(entry) THEN "TypeError"
  ELSE IF "latest" \notin DOMAIN entry THEN "INVALID_SCHEMA"
  ELSE IF "versions" \notin DOMAIN entry THEN "INVALID_SCHEMA"
  ELSE IF entry.latest \notin DOMAIN entry.versions THEN "INVALID_SCHEMA"
  ELSE IF ~(RequiredFields \subseteq entry.versions[entry.latest].fields)
       THEN "INVALID_SCHEMA"
  ELSE "ok"

\* lines 429-452: the first entry that fails decides
RECURSIVE ValidateLoop(_, _)
ValidateLoop(prompts, i) ==
  IF i > Len(IdSeq) THEN "ok"
  ELSE IF IdSeq[i] \notin DOMAIN prompts THEN ValidateLoop(prompts, i + 1)
  ELSE IF ValidateEntry(prompts[IdSeq[i]]) # "ok"
       THEN ValidateEntry(prompts[IdSeq[i]])
  ELSE ValidateLoop(prompts, i + 1)

\* lines 419-455: "ok", or the kind of what it throws
validateRemoteSchema(data) ==
  IF ~IsObject(data) THEN "INVALID_SCHEMA"
  ELSE IF "prompts" \notin DOMAIN data THEN "INVALID_SCHEMA"
  ELSE ValidateLoop(data.prompts, 1)

\* What section 4.5 of the design asks of a remote document: an object with
\* a prompts mapping in which every entry has a latest, a versions mapping
\* that has the latest as a key, and a latest record with the required
\* fields
WellFormedEntry(entry) ==
  /\ ~IsNull(entry)
  /\ {"latest", "versions"} \subseteq DOMAIN entry
  /\ entry.latest \in DOMAIN entry.versions
  /\ RequiredFields \subseteq entry.versions[entry.latest].fields

WellFormed(data) ==
  /\ IsObject(data)
  /\ "prompts" \in DOMAIN data
  /\ \A id \in DOMAIN data.prompts : WellFormedEntry(data.prompts[id])

----------------------------------------------------------------------------
(* Sync *)

Syncs == {"fg", "bg"}

retryAttempts == 3

\* options.x || default
OrDefault(x, default) == IF x = "undefined" THEN default ELSE x

\* lines 558-567
InitResult(localVersion) ==
  [success |-> FALSE, localVersion |-> localVersion, remoteVersion |-> Null,
   newPrompts |-> 0, updatedPrompts |-> 0, errors |-> <<>>, warnings |-> <<>>,
   lastSync |-> Null]

\* lines 569-578
MakeSyncOptions(options) ==
  [url |-> options.url, force |-> options.force,
   errorPolicy |-> OrDefault(options.errorPolicy, "throw"),
   mergeStrategy |-> OrDefault(options.mergeStrategy, "prefer-local")]

\* lines 646-647: a SyncError keeps its code, anything else becomes UNKNOWN
AsSyncError(kind) == IF kind = "TypeError" THEN "UNKNOWN" ELSE kind

\* CatchOutcome that returns under silent only
CatchOutcomeSilentOnly(errorPolicy) ==
  IF errorPolicy = "silent" THEN "returned" ELSE "raised"

\* lines 649-659: "raised" when the error is rethrown, "returned" otherwise
CatchOutcome(errorPolicy) == IF errorPolicy = "throw" THEN "raised" ELSE "returned"

\* lines 636-643 on the result
Finalized(res, t) == [res EXCEPT !.success = TRUE, !.lastSync = Some(t)]

\* lines 642-643 on the metadata
MetadataAfterSync(meta, res, t) ==
  [meta EXCEPT !.lastSync = Some(t),
               !.localVersion = IF res.remoteVersion # Null
                                THEN res.remoteVersion[1] ELSE meta.localVersion]

\* line 617: remoteData.schemaVersion || '2.0'
RemoteVersionOf(data) ==
  IF "schemaVersion" \in DOMAIN data THEN data.schemaVersion ELSE S20

\* lines 598-600 and 625-627
WithMerge(res, m) ==
  [res EXCEPT !.newPrompts = m.newPrompts, !.updatedPrompts = m.updatedPrompts,
              !.warnings = m.warnings]

\* CacheOnInvalid that writes the document before it is validated
CacheOnInvalidWritten(files, url, data, t) == saveToCache(files, url, data, t, TRUE)

\* lines 611-615: validateRemoteSchema throws before saveToCache is
\* reached, so the cache files are as they were
CacheOnInvalid(files, url, data, t) == files

\* lines 609-633 once the fetcher has returned data: validate, write the
\* cache, merge into the document local, persist.  The value is the state they leave and the kind
\* of the error they stop at ("none" when they complete).
AfterFetch(local, data, opts, res, t, cacheOk, diskOk) ==
  LET verdict == validateRemoteSchema(data)
      base == [error |-> "none", registry |-> local,
               schemaVersion |-> registryMetadata.schemaVersion,
               cache |-> cache, disk |-> disk, result |-> res,
               merged |-> FALSE, wrote |-> FALSE]
  IN
  IF verdict # "ok"
  THEN [base EXCEPT !.error = verdict,
                    !.cache = CacheOnInvalid(cache, opts.url, data, t)]
  ELSE
    LET files == saveToCache(cache, opts.url, data, t, cacheOk)
        rv    == RemoteVersionOf(data)
        m     == mergeRegistries(local, registryMetadata.schemaVersion,
                                 data.prompts, rv, opts.mergeStrategy)
        res2  == WithMerge([res EXCEPT !.remoteVersion = Some(rv)], m)
        save  == m.newPrompts > 0 \/ m.updatedPrompts > 0
    IN
    [error |-> IF save /\ ~diskOk THEN "QUOTA_EXCEEDED" ELSE "none",
     registry |-> m.registry, schemaVersion |-> m.schemaVersion,
     cache |-> files,
     disk |-> IF save /\ diskOk THEN m.registry ELSE disk,
     result |-> res2, merged |-> TRUE, wrote |-> save /\ diskOk]

\* what one attempt of the fetcher ends with (lines 364-394): a rejected
\* fetch, a response that is not ok, a wrong content type, a body that is
\* no JSON, a payload over the size limit, or the document
Outcomes == {"rejected", "status", "contentType", "syntax", "tooLarge", "ok"}

\* the error the attempt throws into the catch of line 396
AttemptError(outcome) ==
  CASE outcome = "rejected"    -> "FetchError"
    [] outcome = "status"      -> "NETWORK_ERROR"
    [] outcome = "contentType" -> "INVALID_SCHEMA"
    [] outcome = "syntax"      -> "SyntaxError"
    [] outcome = "tooLarge"    -> "QUOTA_EXCEEDED"

SyncErrorCodes ==
  {"NETWORK_ERROR", "TIMEOUT", "INVALID_SCHEMA", "CERTIFICATE_ERROR",
   "QUOTA_EXCEEDED", "UNKNOWN"}

\* FinalFetchError that makes a NETWORK_ERROR of every error
FinalFetchErrorAsNetwork(lastError) == "NETWORK_ERROR"

\* lines 408-411: what the fetcher throws after the last attempt
FinalFetchError(lastError) ==
  IF lastError \in SyncErrorCodes THEN lastError ELSE "NETWORK_ERROR"

\* lines 347-349: the error for an untrusted url; building its message
\* parses the url again, which raises a TypeError when it does not parse
UntrustedError(url) == IF url.parses THEN "CERTIFICATE_ERROR" ELSE "TypeError"

IdleCall ==
  [startRegistry |-> <<>>, startMetadata |-> InitMetadata,
   errorPolicyGiven |-> "undefined",
   hitAtStart |-> FALSE, net |-> 0, merged |-> <<>>,
   fetched |-> "none", wrote |-> FALSE, raised |-> Null,
   progress |-> <<>>, abortedInFlight |-> FALSE, lastAttempt |-> Null,
   delays |-> <<>>, verdict |-> "none", fetchMerge |-> Null]

\* lines 210-214: the call of the progress callback, kept in the history
reportProgress(c, stage, progress) ==
  [c EXCEPT !.progress = Append(@, [stage |-> stage, progress |-> progress])]

\* line 362: Math.round((attempt - 1) / retryAttempts * 20)
AttemptProgress(attempt) ==
  (2 * (attempt - 1) * 20 + retryAttempts) \div (2 * retryAttempts)

MinOf(m, n) == IF m <= n THEN m ELSE n

\* BackoffDelay without the doubling
BackoffDelayFlat(attempt) == 1000

\* line 400: Math.min(1000 * Math.pow(2, attempt - 1), 30000)
BackoffDelay(attempt) == MinOf(1000 * 2 ^ (attempt - 1), 30000)

\* line 401: the fetcher waits after the failed attempt; the delays of one
\* invocation are kept in the history
Waits(c, attempt) == [c EXCEPT !.delays = Append(@, BackoffDelay(attempt))]

\* lines 379-391: the errors an attempt throws after it has
\* received a successful response
AfterResponseErrors == {"INVALID_SCHEMA", "SyntaxError", "QUOTA_EXCEEDED"}

IdleOptions ==
  [url |-> Url(FALSE, "", <<>>), force |-> FALSE, errorPolicy |-> "throw",
   mergeStrategy |-> "prefer-local"]

IdleFetch == [attempt |-> 0, timer |-> "unset", lastError |-> "none"]

----------------------------------------------------------------------------
(* get *)

\* A text is the sequence of its pieces: stretches of plain text, the
\* placeholders {{name}} and {{topic}}, and the replacement patterns $& and
\* $$ of String.prototype.replace, which are plain text anywhere else.  A
\* prompt id is [base, version]: version is null when the id has no @ or
\* nothing after it.
Keys == {"name", "topic"}

\* line 787: the text that new RegExp(`\\{\\{${key}\\}\\}`, 'g') matches
PlaceholderOf == ("name" :> "{{name}}") @@ ("topic" :> "{{topic}}")

\* line 791: what /\{\{([^}]+)\}\}/g matches
IsPlaceholder(piece) == \E k \in Keys : PlaceholderOf[k] = piece

\* line 793: v.slice(2, -2)
NameOf(piece) == CHOOSE k \in Keys : PlaceholderOf[k] = piece

\* a value of the variable map: its text, and whether it is falsy ('' and
\* the number 0 are)
Value(falsy, text) == [falsy |-> falsy, text |-> text]

\* line 787: value || ''
ValueOrEmpty(value) == IF value.falsy THEN <<>> ELSE value.text

\* String.prototype.replace with a string as the replacement: in it $&
\* stands for the matched text and $$ for one dollar sign
Expand(replacement, match) ==
  [i \in 1..Len(replacement) |->
     IF replacement[i] = "$&" THEN match
     ELSE IF replacement[i] = "$$" THEN "$"
     ELSE replacement[i]]

\* line 787: prompt.replace(/{{key}}/g, replacement); the inserted text is
\* not searched again
RECURSIVE ReplaceAll(_, _, _)
ReplaceAll(text, key, replacement) ==
  IF text = <<>> THEN <<>>
  ELSE (IF Head(text) = PlaceholderOf[key]
        THEN Expand(replacement, Head(text)) ELSE <<Head(text)>>)
       \o ReplaceAll(Tail(text), key, replacement)

\* lines 786-788: the loop over Object.entries(variables), a sequence of
\* [key, value] in insertion order
RECURSIVE Interpolate(_, _, _)
Interpolate(text, variables, i) ==
  IF i > Len(variables) THEN text
  ELSE Interpolate(ReplaceAll(text, variables[i].key,
                              ValueOrEmpty(variables[i].value)),
                   variables, i + 1)

\* lines 791-793: the names of the placeholders left in the text
Unsubstituted(text) ==
  LET left == SelectSeq(text, IsPlaceholder) IN
  [i \in 1..Len(left) |-> NameOf(left[i])]

\* the prompt text of a version record; the records of the sync documents
\* carry their content as body
TemplateOf(promptData) ==
  IF "prompt" \in DOMAIN promptData THEN promptData.prompt
  ELSE <<promptData.body>>

\* what a call of get comes to: kind is "ok" (the prompt is returned),
\* "error" (error is thrown) or "sync" (syncAndRetryGet is called)
GetOutcome(kind, error, names, prompt, template) ==
  [kind |-> kind, error |-> error, names |-> names, prompt |-> prompt,
   template |-> template, id |-> Null, record |-> Null]

\* lines 796-803: the object that get returns has the id baseId@version and
\* the description, category, tags and version of the version record
Returns(outcome, baseId, version, promptData) ==
  [outcome EXCEPT !.id = Some([base |-> baseId, version |-> Some(version)]),
                  !.record = Some(promptData)]

NoOutcome == GetOutcome("none", "none", <<>>, <<>>, <<>>)

\* ResolveVersion that takes the latest version whatever the id asks for
ResolveVersionLatest(base, asked) == base.latest

\* lines 777-779: the version asked for, the latest one when there is none
ResolveVersion(base, asked) ==
  IF asked = Null THEN base.latest ELSE asked[1]

\* lines 761-804
get(reg, id, variables, options) ==
  IF id.base \notin DOMAIN reg THEN
    IF options.syncOnMissing
    THEN GetOutcome("sync", "none", <<>>, <<>>, <<>>)
    ELSE GetOutcome("error", "NotFound", <<>>, <<>>, <<>>)
  ELSE
    LET base    == reg[id.base]
        version == ResolveVersion(base, id.version)
    IN
    IF version \notin DOMAIN base.versions
    THEN GetOutcome("error", "VersionNotFound", <<>>, <<>>, <<>>)
    ELSE
      LET template == TemplateOf(base.versions[version])
          prompt   == Interpolate(template, variables, 1)
      IN
      IF Unsubstituted(prompt) # <<>>
      THEN GetOutcome("error", "MissingVariables", Unsubstituted(prompt),
                      <<>>, template)
      ELSE Returns(GetOutcome("ok", "none", <<>>, prompt, template),
                   id.base, version, base.versions[version])

\* multi-llm-variants.js lines 22-33
MODEL_CATEGORIES ==
  ("gpt-4" :> "gpt") @@ ("gpt-3.5-turbo" :> "gpt")
  @@ ("claude-3-opus" :> "claude") @@ ("claude-3-sonnet" :> "claude")
  @@ ("claude-3-haiku" :> "claude") @@ ("llama-3" :> "llama")
  @@ ("llama-2" :> "llama") @@ ("gemini-pro" :> "gemini")
  @@ ("mistral-large" :> "mistral") @@ ("mixtral" :> "mistral")

\* the text of a model name, in pieces that keep apart the prefixes of
\* lines 48-52; "undefined" is the name of the model that is not given
ModelText ==
  ("gpt-4" :> <<"gpt-4">>) @@ ("gpt-4-turbo" :> <<"gpt-4", "-turbo">>)
  @@ ("gpt-3.5-turbo" :> <<"gpt-3.5", "-turbo">>)
  @@ ("claude-3-opus" :> <<"claude-3", "-opus">>)
  @@ ("claude-2.1" :> <<"claude-2", ".1">>)
  @@ ("llama-3" :> <<"llama-3">>) @@ ("gemini-pro" :> <<"gemini", "-pro">>)
  @@ ("mixtral-8x7b" :> <<"mixtral", "-8x7b">>)
  @@ ("unknown-model" :> <<"unknown-model">>)
  @@ ("undefined" :> <<"undefined">>)

\* lines 47-53: the prefixes of each category, in the order of the object
CategoryPrefixes ==
  <<[category |-> "gpt", models |-> {<<"gpt-4">>, <<"gpt-3.5">>}],
    [category |-> "claude", models |-> {<<"claude-3">>, <<"claude-2">>}],
    [category |-> "llama", models |-> {<<"llama-3">>, <<"llama-2">>}],
    [category |-> "gemini", models |-> {<<"gemini">>}],
    [category |-> "mistral", models |-> {<<"mistral">>, <<"mixtral">>}]>>

\* String.prototype.startsWith
startsWith(text, prefix) ==
  Len(prefix) <= Len(text) /\ SubSeq(text, 1, Len(prefix)) = prefix

\* multi-llm-variants.js lines 40-61: the models of the table, then the
\* prefixes, then generic
getModelCategory(model) ==
  IF model \in DOMAIN MODEL_CATEGORIES THEN MODEL_CATEGORIES[model]
  ELSE
    LET hits == {i \in DOMAIN CategoryPrefixes :
                   \E prefix \in CategoryPrefixes[i].models :
                      startsWith(ModelText[model], prefix)}
    IN IF hits = {} THEN "generic"
       ELSE CategoryPrefixes[CHOOSE i \in hits : \A j \in hits : i <= j].category

\* getPromptVariant that tries the generic variant before that of the
\* category
getPromptVariantGenericFirst(promptData, model) ==
  IF "variants" \notin DOMAIN promptData THEN promptData.prompt
  ELSE IF model \in DOMAIN promptData.variants THEN promptData.variants[model]
  ELSE IF "generic" \in DOMAIN promptData.variants
       THEN promptData.variants["generic"]
  ELSE IF getModelCategory(model) \in DOMAIN promptData.variants
       THEN promptData.variants[getModelCategory(model)]
  ELSE promptData.prompt

\* multi-llm-variants.js lines 69-93; a variant is a text that is not
\* empty, so the tests of lines 76, 82 and 87 are those of the key
getPromptVariant(promptData, model) ==
  IF "variants" \notin DOMAIN promptData THEN promptData.prompt
  ELSE IF model \in DOMAIN promptData.variants THEN promptData.variants[model]
  ELSE IF getModelCategory(model) \in DOMAIN promptData.variants
       THEN promptData.variants[getModelCategory(model)]
  ELSE IF "generic" \in DOMAIN promptData.variants
       THEN promptData.variants["generic"]
  ELSE promptData.prompt

\* the options of get; syncOnMissing is FALSE when it is not given
GetOptions(model, syncOnMissing, syncUrl) ==
  [model |-> model, syncOnMissing |-> syncOnMissing, syncUrl |-> syncUrl]

\* lines 815-820: the options of the sync that syncAndRetryGet starts
SyncOptionsOfGet(options) ==
  [url |-> options.syncUrl, force |-> FALSE, errorPolicy |-> "throw",
   mergeStrategy |-> "undefined"]

\* RetryOptions that hands the options of the call to the retry
RetryOptionsSame(options) == options

\* line 822: get(id, variables), so the options of the retry are {}
RetryOptions(options) == GetOptions("undefined", FALSE, Url(FALSE, "", <<>>))

\* lines 823-825: what syncAndRetryGet throws for any error of the sync or
\* of the retry
SyncAndRetryFailed ==
  GetOutcome("error", "NotFoundAndSyncFailed", <<>>, <<>>, <<>>)

----------------------------------------------------------------------------
(* search *)

\* Texts are sequences of characters.  The ids of the prompts are the keys
\* of the document; IdText gives the characters of each.
IdText ==
  ("ab" :> <<"a", "b">>) @@ ("c" :> <<"c">>) @@ ("d" :> <<"d">>)
  @@ ("p" :> <<"p">>) @@ ("q" :> <<"q">>)

\* toLowerCase that leaves the text as it is
toLowerCaseSame(text) == text

\* String.prototype.toLowerCase on the characters used here
toLowerCase(text) ==
  LET lower == ("A" :> "a") @@ ("B" :> "b") @@ ("T" :> "t") @@ ("X" :> "x")
  IN [i \in 1..Len(text) |->
        IF text[i] \in DOMAIN lower THEN lower[text[i]] ELSE text[i]]

\* String.prototype.includes
includes(text, part) ==
  \E i \in 0..(Len(text) - Len(part)) :
     SubSeq(text, i + 1, i + Len(part)) = part

\* the description, category and tags of a version record; the records of
\* the sync documents, which carry their content as body, have the body as
\* description, the category g and no tag
MetaOf(promptData) ==
  IF "meta" \in DOMAIN promptData THEN promptData.meta
  ELSE [description |-> <<promptData.body>>, category |-> <<"g">>,
        tags |-> <<>>]

\* lines 840-852: the element of allPrompts made of an entry of the
\* registry, from its latest version
PromptOf(reg, baseId) ==
  LET latestData == MetaOf(reg[baseId].versions[reg[baseId].latest]) IN
  [id |-> baseId, description |-> latestData.description,
   category |-> latestData.category, tags |-> latestData.tags]

\* lines 859-864: the predicate of the filter of a string query
MatchesText(p, lowerQuery) ==
  \/ includes(toLowerCase(IdText[p.id]), lowerQuery)
  \/ includes(toLowerCase(p.description), lowerQuery)
  \/ includes(toLowerCase(p.category), lowerQuery)
  \/ \E i \in 1..Len(p.tags) : includes(toLowerCase(p.tags[i]), lowerQuery)

\* lines 867-875: the predicate of the filter of an object query; a field
\* that is not given is null (tags: the empty list)
MatchesFilter(p, query) ==
  /\ query.category # Null => p.category = query.category[1]
  /\ \A i \in 1..Len(query.tags) :
        \E j \in 1..Len(p.tags) : p.tags[j] = query.tags[i]
  /\ query.id # Null => p.id = query.id[1]

\* a string query
TextQuery(text) == [kind |-> "string", text |-> text]

\* an object query; syncOnEmpty is "undefined" when the object has no such
\* key
FilterQuery(category, tags, id, syncOnEmpty) ==
  [kind |-> "object", category |-> category, tags |-> tags, id |-> id,
   syncOnEmpty |-> syncOnEmpty]

\* the second argument of search
SearchOptions(syncOnEmpty, syncUrl) ==
  [syncOnEmpty |-> syncOnEmpty, syncUrl |-> syncUrl]

\* lines 837-838: { ...query, ...options } for an object query, options
\* otherwise
MergedOptions(query, options) ==
  IF query.kind = "object" /\ options.syncOnEmpty = "undefined"
  THEN [options EXCEPT !.syncOnEmpty = query.syncOnEmpty]
  ELSE options

\* lines 835-884: kind is "ok" (ids are the ids of the list returned) or
\* "sync" (syncAndRetrySearch is called with searchOptions)
search(reg, query, options) ==
  LET searchOptions == MergedOptions(query, options)
      allPrompts    == {PromptOf(reg, baseId) : baseId \in DOMAIN reg}
      filtered ==
        IF query.kind = "string"
        THEN {p \in allPrompts : MatchesText(p, toLowerCase(query.text))}
        ELSE IF options.syncOnEmpty # "true"
        THEN {p \in allPrompts : MatchesFilter(p, query)}
        ELSE allPrompts
  IN
  IF filtered = {} /\ searchOptions.syncOnEmpty = "true"
  THEN [kind |-> "sync", ids |-> {}, searchOptions |-> searchOptions]
  ELSE [kind |-> "ok", ids |-> {p.id : p \in filtered},
        searchOptions |-> searchOptions]

\* lines 894-899: the options of the sync that syncAndRetrySearch starts
SyncOptionsOfSearch(searchOptions) ==
  [url |-> searchOptions.syncUrl, force |-> FALSE, errorPolicy |-> "throw",
   mergeStrategy |-> "undefined"]

\* line 901: { ...options, syncOnEmpty: false }
RetrySearchOptions(searchOptions) ==
  [searchOptions EXCEPT !.syncOnEmpty = "false"]

NoGetCall ==
  [phase |-> "none", id |-> [base |-> "", version |-> Null], variables |-> <<>>,
   options |-> GetOptions("undefined", FALSE, Url(FALSE, "", <<>>)),
   known |-> FALSE, syncs |-> 0, lookups |-> 0, outcome |-> NoOutcome]

----------------------------------------------------------------------------
(* State *)

vars ==
  <<registry, registryMetadata, disk, cache, now, started, turn, pc,
    syncOptions, result, fetchState, call, lastMerge, trustCheck, cacheCall,
    versionCheck, getCall, searchCall, configCall, variantCall>>

syncVars ==
  <<disk, cache, now, started, turn, pc, syncOptions, result, fetchState, call>>

\* the histories of the functions called on their own
ownCalls ==
  <<trustCheck, cacheCall, versionCheck, getCall, searchCall, configCall,
    variantCall>>

\* the histories of the calls other than those of get
notGet == <<trustCheck, cacheCall, versionCheck, searchCall, configCall, variantCall>>

NoTrustCheck == [done |-> FALSE, url |-> Url(FALSE, "", <<>>), verdict |-> FALSE]

NoVersionCheck ==
  [done |-> FALSE, a |-> V1, b |-> V1, c |-> V1,
   aa |-> 0, ab |-> 0, ba |-> 0, bc |-> 0, ac |-> 0]

NoSearchCall ==
  [phase |-> "none", query |-> [kind |-> "none"], options |-> [kind |-> "none"],
   before |-> <<>>, syncs |-> 0, searches |-> 0, ids |-> {}]

NoConfigCall ==
  [done |-> FALSE, homeConfig |-> Null, cwdConfig |-> Null,
   url |-> Url(FALSE, "", <<>>), domains |-> <<>>, verdict |-> FALSE]

NoVariantCall ==
  [done |-> FALSE, promptData |-> [prompt |-> <<>>], model |-> "undefined",
   returned |-> <<>>]

NoCacheCall ==
  [op |-> "none", url |-> Url(FALSE, "", <<>>), at |-> 0, before |-> <<>>,
   data |-> <<>>, writeOk |-> FALSE, returned |-> Null]

NoCalls ==
  /\ disk = registry
  /\ now = 0
  /\ started = 0
  /\ turn = "none"
  /\ pc = [s \in Syncs |-> "idle"]
  /\ syncOptions = [s \in Syncs |-> IdleOptions]
  /\ result = [s \in Syncs |-> InitResult(InitMetadata.localVersion)]
  /\ fetchState = [s \in Syncs |-> IdleFetch]
  /\ call = [s \in Syncs |-> IdleCall]

----------------------------------------------------------------------------
(* The merger on its own: any local document, then any sequence of merges  *)

InitMerge ==
  /\ registry \in LocalDocs
  /\ registryMetadata = InitMetadata
  /\ lastMerge = NoMerge
  /\ cache = <<>>
  /\ trustCheck = NoTrustCheck
  /\ cacheCall = NoCacheCall
  /\ versionCheck = NoVersionCheck
  /\ getCall = NoGetCall
  /\ searchCall = NoSearchCall
  /\ configCall = NoConfigCall
  /\ variantCall = NoVariantCall
  /\ NoCalls

Merge(prompts, remoteSchema, strategy) ==
  LET m == mergeRegistries(registry, registryMetadata.schemaVersion,
                           prompts, remoteSchema, strategy) IN
  /\ registry' = m.registry
  /\ registryMetadata' = [registryMetadata EXCEPT !.schemaVersion = m.schemaVersion]
  /\ lastMerge' = MergeRecord(prompts, remoteSchema, strategy, m)
  /\ UNCHANGED <<syncVars, ownCalls>>

NextMerge ==
  \E prompts \in RemoteDocs, remoteSchema \in RemoteSchemas, strategy \in Strategies :
    Merge(prompts, remoteSchema, strategy)

SpecMerge == InitMerge /\ [][NextMerge]_vars

----------------------------------------------------------------------------
(* Sync invocations against a remote server *)

MaxSyncs == 1
MaxTime  == 1

UrlCdn  == Url(TRUE, "https:", <<"cdn", ".", "jsdelivr", ".", "net">>)
UrlHttp == Url(TRUE, "http:", <<"github", ".", "com">>)
UrlJunk == Url(FALSE, "", <<>>)

SyncUrls == {UrlCdn, UrlHttp, UrlJunk}

SyncInputs ==
  [url : SyncUrls, force : BOOLEAN,
   errorPolicy : {"undefined", "warn", "silent"},
   mergeStrategy : {"undefined", "prefer-remote"}]

EntryL1  == [latest |-> V1, versions |-> (V1 :> Rec("L"))]
EntryR12 == [latest |-> V2, versions |-> (V1 :> Rec("R")) @@ (V2 :> Rec("R"))]
EntryR10 == [latest |-> V10, versions |-> (V10 :> Rec("R"))]
EntryR1  == [latest |-> V1, versions |-> (V1 :> Rec("R"))]

SyncLocalDocs == {("p" :> EntryL1)}

\* documents that pass the schema validation
DocNewer == [prompts |-> ("p" :> EntryR12)]
DocMixed == [prompts |-> ("p" :> EntryR10) @@ ("q" :> EntryR1),
             schemaVersion |-> S30]
DocEmpty == [prompts |-> <<>>]

\* documents that do not: no object, no prompts, an entry without versions,
\* a null entry, a latest that is no key of versions, a latest record
\* without its tags
DocScalar     == [scalar |-> TRUE]
DocNoPrompts  == [schemaVersion |-> S20]
DocNoVersions == [prompts |-> ("p" :> [latest |-> V1])]
DocNullEntry  == [prompts |-> ("p" :> [null |-> TRUE])]
DocDangling   == [prompts |-> ("q" :> [latest |-> V2, versions |-> (V1 :> Rec("R"))])]
DocNoTags     ==
  [prompts |-> ("q" :> [latest |-> V1, versions |->
      (V1 :> [body |-> "R", fields |-> RequiredFields \ {"tags"}])])]

ServerDocs ==
  {DocNewer, DocMixed, DocEmpty, DocScalar, DocNoPrompts, DocNoVersions,
   DocNullEntry, DocDangling, DocNoTags}

\* what the cache directory holds when the module is loaded: nothing, or a
\* document that an earlier run of the program fetched, validated and cached
InitCaches ==
  {<<>>, saveToCache(<<>>, UrlCdn, DocNewer, 0, TRUE)}

Init ==
  /\ registry \in SyncLocalDocs
  /\ registryMetadata = InitMetadata
  /\ lastMerge = NoMerge
  /\ cache \in InitCaches
  /\ trustCheck = NoTrustCheck
  /\ cacheCall = NoCacheCall
  /\ versionCheck = NoVersionCheck
  /\ getCall = NoGetCall
  /\ searchCall = NoSearchCall
  /\ configCall = NoConfigCall
  /\ variantCall = NoVariantCall
  /\ NoCalls

\* the end of sync.  kind = "none": the try block ran to its end (lines
\* 636-643).  Otherwise the catch block (lines 645-657) got an error of that
\* kind.  res, meta and c are the result, the metadata and the history as
\* they stand at that point.
EndSync(s, res, meta, c, kind) ==
  IF kind = "none" THEN
    /\ result' = [result EXCEPT ![s] = Finalized(res, now)]
    /\ registryMetadata' = MetadataAfterSync(meta, res, now)
    /\ pc' = [pc EXCEPT ![s] = "returned"]
    /\ call' = [call EXCEPT ![s] = reportProgress(c, "finalizing", 100)]
  ELSE
    /\ result' = [result EXCEPT ![s] =
                    [res EXCEPT !.errors = Append(@, AsSyncError(kind))]]
    /\ registryMetadata' = meta
    /\ pc' = [pc EXCEPT ![s] = CatchOutcome(syncOptions[s].errorPolicy)]
    /\ call' = [call EXCEPT ![s] =
                  [c EXCEPT !.raised =
                     IF CatchOutcome(syncOptions[s].errorPolicy) = "raised"
                     THEN Some(AsSyncError(kind)) ELSE Null]]

\* lines 554-602: the call, the options, the first cache lookup and the
\* merge of the cached document
SyncCall(s, options) ==
  /\ LET opts   == MakeSyncOptions(options)
         res    == InitResult(registryMetadata.localVersion)
         meta   == [registryMetadata EXCEPT !.syncUrl = Some(opts.url)]
         cached == IF opts.force THEN Null
                   ELSE loadFromCache(cache, opts.url, now)
         c      == reportProgress(
                     [IdleCall EXCEPT !.startRegistry = registry,
                                      !.startMetadata = registryMetadata,
                                      !.errorPolicyGiven = options.errorPolicy],
                     "initializing", 0)
     IN
     /\ started' = started + 1
     /\ turn' = s
     /\ pc' = [pc EXCEPT ![s] = "checked"]
     /\ syncOptions' = [syncOptions EXCEPT ![s] = opts]
     /\ IF cached # Null THEN
          LET m == mergeRegistries(registry, registryMetadata.schemaVersion,
                                   cached[1].prompts, S20, opts.mergeStrategy)
          IN
          /\ registry' = m.registry
          /\ registryMetadata' = [meta EXCEPT !.schemaVersion = m.schemaVersion]
          /\ result' = [result EXCEPT ![s] = WithMerge(res, m)]
          /\ lastMerge' = MergeRecord(cached[1].prompts, S20, opts.mergeStrategy, m)
          /\ call' = [call EXCEPT ![s] =
                        [reportProgress(c, "fetching", 100)
                           EXCEPT !.hitAtStart = TRUE, !.merged = <<"cache">>]]
        ELSE
          /\ registryMetadata' = meta
          /\ result' = [result EXCEPT ![s] = res]
          /\ call' = [call EXCEPT ![s] = c]
          /\ UNCHANGED <<registry, lastMerge>>
  /\ UNCHANGED <<disk, cache, now, fetchState>>

\* a caller of the library calls sync
SyncStart(s, options) ==
  /\ UNCHANGED ownCalls
  /\ pc[s] = "idle"
  /\ turn = "none"
  /\ started < MaxSyncs
  /\ SyncCall(s, options)

\* lines 604-607 and 347-364: the second cache lookup, then either the end
\* of the sync or the trust check and the first request of the fetcher
SecondLookup(s) ==
  /\ UNCHANGED ownCalls
  /\ pc[s] = "checked"
  /\ turn = s
  /\ turn' = "none"
  /\ LET opts == syncOptions[s]
         c    == reportProgress(call[s], "fetching", 25)
     IN
     IF loadFromCache(cache, opts.url, now) # Null /\ ~opts.force THEN
       /\ EndSync(s, result[s], registryMetadata, call[s], "none")
       /\ UNCHANGED fetchState
     ELSE IF ~isTrustedDomain(opts.url) THEN
       /\ EndSync(s, result[s], registryMetadata, c, UntrustedError(opts.url))
       /\ UNCHANGED fetchState
     ELSE
       /\ pc' = [pc EXCEPT ![s] = "fetching"]
       /\ fetchState' = [fetchState EXCEPT ![s] =
                           [attempt |-> 1, timer |-> "armed", lastError |-> "none"]]
       /\ call' = [call EXCEPT ![s] =
                     [reportProgress(c, "fetching", AttemptProgress(1))
                        EXCEPT !.net = @ + 1]]
       /\ UNCHANGED <<result, registryMetadata>>
  /\ UNCHANGED <<registry, disk, cache, now, started, syncOptions, lastMerge>>

\* lines 396-411: the catch of one attempt that threw err; timer is the
\* state of the timeout at that point.  When the fetcher is left its locals
\* are gone; the history keeps the error of the last attempt.
AttemptFailed(s, err, timer) ==
  IF fetchState[s].attempt < retryAttempts THEN
    /\ pc' = [pc EXCEPT ![s] = "backoff"]
    /\ fetchState' = [fetchState EXCEPT ![s].timer = timer,
                                        ![s].lastError = err]
    /\ call' = [call EXCEPT ![s] = Waits(@, fetchState[s].attempt)]
    /\ UNCHANGED <<result, registryMetadata>>
  ELSE
    /\ fetchState' = [fetchState EXCEPT ![s] = IdleFetch]
    /\ EndSync(s, result[s], registryMetadata,
               [call[s] EXCEPT !.lastAttempt = Some(err)], FinalFetchError(err))

\* lines 364-392: an attempt that ends in an error
FetchFails(s, outcome) ==
  /\ UNCHANGED ownCalls
  /\ pc[s] = "fetching"
  /\ AttemptFailed(s, AttemptError(outcome),
                   IF outcome = "rejected" THEN fetchState[s].timer ELSE "cleared")
  /\ UNCHANGED <<registry, disk, cache, now, started, turn, syncOptions, lastMerge>>

\* ProgressAfterFetch with merging reported before comparing
ProgressAfterFetchMergingFirst(c, valid) ==
  LET c1 == [c EXCEPT !.progress = Append(@, [stage |-> "validating", progress |-> 50])] IN
  IF valid
  THEN [c1 EXCEPT !.progress = @ \o <<[stage |-> "merging", progress |-> 75],
                                      [stage |-> "comparing", progress |-> 60],
                                      [stage |-> "updating", progress |-> 90]>>]
  ELSE c1

\* lines 609, 613, 619 and 629: the stages sync reports once it has the
\* document; the last three only when the validation passed
ProgressAfterFetch(c, valid) ==
  LET c1 == reportProgress(c, "validating", 50) IN
  IF valid
  THEN reportProgress(reportProgress(reportProgress(c1, "comparing", 60),
                                     "merging", 75), "updating", 90)
  ELSE c1

\* LocalDocument that is the document the invocation found when it started
LocalDocumentAtStart(s) == call[s].startRegistry

\* lines 97 and 465-470: the document that the merge of invocation s reads
\* and changes is the registry object of the module, which all the
\* invocations share
LocalDocument(s) == registry

\* the merge of the fetched document, kept in the history: the local
\* document before and after it, and the invocations that are suspended in
\* their fetch while it runs
FetchMerge(s, data, strategy, after) ==
  [from |-> registry, to |-> after, prompts |-> data.prompts,
   remoteVersion |-> RemoteVersionOf(data), strategy |-> strategy,
   inFlight |-> {t \in Syncs \ {s} : pc[t] \in {"fetching", "backoff"}}]

\* lines 364-394 and 609-643: an attempt that returns the document, and the
\* rest of sync
FetchReturns(s, data, cacheOk, diskOk) ==
  /\ UNCHANGED ownCalls
  /\ pc[s] = "fetching"
  \* cacheOk and diskOk say how the two writes go: they are left at TRUE
  \* for a document with which the writes are not reached
  /\ validateRemoteSchema(data) # "ok" => cacheOk /\ diskOk
  /\ LET opts == syncOptions[s]
         r    == AfterFetch(LocalDocument(s), data, opts, result[s], now,
                            cacheOk, diskOk)
         meta == [registryMetadata EXCEPT !.schemaVersion = r.schemaVersion]
         c    == [ProgressAfterFetch(call[s], r.merged)
                          EXCEPT !.fetched = IF WellFormed(data) THEN "valid"
                                              ELSE "invalid",
                                 !.merged = IF r.merged THEN Append(@, "fetch") ELSE @,
                                 !.wrote = r.wrote,
                                 !.verdict = validateRemoteSchema(data),
                                 !.fetchMerge =
                                    IF r.merged
                                    THEN Some(FetchMerge(s, data, opts.mergeStrategy,
                                                         r.registry))
                                    ELSE Null]
     IN
     /\ registry' = r.registry
     /\ cache' = r.cache
     /\ disk' = r.disk
     /\ fetchState' = [fetchState EXCEPT ![s] = IdleFetch]
     /\ lastMerge' = IF r.merged
                     THEN MergeRecord(data.prompts, RemoteVersionOf(data),
                                      opts.mergeStrategy, r.result)
                     ELSE lastMerge
     /\ EndSync(s, r.result, meta, c, r.error)
  /\ UNCHANGED <<now, started, turn, syncOptions>>

\* lines 399-402 and 360-364: the delay is over and the next attempt starts;
\* a fetch on a signal that is already aborted rejects without a request
BackoffDone(s) ==
  /\ UNCHANGED ownCalls
  /\ pc[s] = "backoff"
  /\ LET c == reportProgress(call[s], "fetching",
                              AttemptProgress(fetchState[s].attempt + 1))
     IN
     IF fetchState[s].timer = "fired" THEN
       IF fetchState[s].attempt + 1 < retryAttempts THEN
         /\ fetchState' = [fetchState EXCEPT ![s].attempt = @ + 1,
                                             ![s].lastError = "AbortError"]
         /\ call' = [call EXCEPT ![s] = Waits(c, fetchState[s].attempt + 1)]
         /\ UNCHANGED <<pc, result, registryMetadata>>
       ELSE
         /\ fetchState' = [fetchState EXCEPT ![s] = IdleFetch]
         /\ EndSync(s, result[s], registryMetadata,
                    [c EXCEPT !.lastAttempt = Some("AbortError")],
                    FinalFetchError("AbortError"))
     ELSE
       /\ pc' = [pc EXCEPT ![s] = "fetching"]
       /\ fetchState' = [fetchState EXCEPT ![s].attempt = @ + 1]
       /\ call' = [call EXCEPT ![s] = [c EXCEPT !.net = @ + 1]]
       /\ UNCHANGED <<result, registryMetadata>>
  /\ UNCHANGED <<registry, disk, cache, now, started, turn, syncOptions, lastMerge>>

\* lines 354-356: the timeout fires and aborts the signal; a fetch that is
\* in flight rejects with an AbortError
TimeoutFires(s) ==
  /\ UNCHANGED ownCalls
  /\ pc[s] \in {"fetching", "backoff"}
  /\ fetchState[s].timer = "armed"
  /\ IF pc[s] = "fetching" THEN
       LET c == [call[s] EXCEPT !.abortedInFlight = TRUE] IN
       IF fetchState[s].attempt < retryAttempts THEN
         /\ pc' = [pc EXCEPT ![s] = "backoff"]
         /\ fetchState' = [fetchState EXCEPT ![s].timer = "fired",
                                             ![s].lastError = "AbortError"]
         /\ call' = [call EXCEPT ![s] = Waits(c, fetchState[s].attempt)]
         /\ UNCHANGED <<result, registryMetadata>>
       ELSE
         /\ fetchState' = [fetchState EXCEPT ![s] = IdleFetch]
         /\ EndSync(s, result[s], registryMetadata,
                    [c EXCEPT !.lastAttempt = Some("AbortError")],
                    FinalFetchError("AbortError"))
     ELSE
       /\ fetchState' = [fetchState EXCEPT ![s].timer = "fired"]
       /\ UNCHANGED <<pc, result, registryMetadata, call>>
  /\ UNCHANGED <<registry, disk, cache, now, started, turn, syncOptions, lastMerge>>

\* the caller has the result, or the error, of the invocation
Done(s) ==
  /\ UNCHANGED ownCalls
  /\ pc[s] \in {"returned", "raised"}
  /\ pc' = [pc EXCEPT ![s] = "idle"]
  /\ syncOptions' = [syncOptions EXCEPT ![s] = IdleOptions]
  /\ result' = [result EXCEPT ![s] = InitResult(InitMetadata.localVersion)]
  /\ fetchState' = [fetchState EXCEPT ![s] = IdleFetch]
  /\ call' = [call EXCEPT ![s] = IdleCall]
  /\ lastMerge' = NoMerge
  /\ UNCHANGED <<registry, registryMetadata, disk, cache, now, started, turn>>

\* the clock advances by one ttl: what the cache holds expires
Tick ==
  /\ UNCHANGED ownCalls
  /\ now < MaxTime
  /\ now' = now + 1
  /\ UNCHANGED <<registry, registryMetadata, disk, cache, started, turn, pc,
                 syncOptions, result, fetchState, call, lastMerge>>

Next ==
  \/ \E options \in SyncInputs : SyncStart("fg", options)
  \/ SecondLookup("fg")
  \/ \E outcome \in Outcomes \ {"ok"} : FetchFails("fg", outcome)
  \/ \E data \in ServerDocs, cacheOk \in BOOLEAN, diskOk \in BOOLEAN :
       FetchReturns("fg", data, cacheOk, diskOk)
  \/ BackoffDone("fg")
  \/ TimeoutFires("fg")
  \/ Done("fg")
  \/ Tick

Spec == Init /\ [][Next]_vars

\* The same program with what its scheduling guarantees: a step of the
\* program that can run does run (the continuation after an await, the end
\* of a delay), and an armed timer fires.  Nothing is assumed of the
\* server: a request may stay without an answer for ever.
SpecFair ==
  /\ Spec
  /\ WF_vars(SecondLookup("fg"))
  /\ WF_vars(BackoffDone("fg"))
  /\ WF_vars(TimeoutFires("fg"))

----------------------------------------------------------------------------
(* The trust policy on its own: isTrustedDomain applied to any url         *)

MaxPieces == 5

HostWords == {"evil", "raw", "github", "githubusercontent", "com"}

\* the hostnames of at most MaxPieces pieces: words and single dots, with a
\* word at both ends
Hostnames ==
  {h \in UNION {[1..n -> HostWords \cup {"."}] : n \in 1..MaxPieces} :
     /\ h[1] # "." /\ h[Len(h)] # "."
     /\ \A i \in 1..(Len(h) - 1) : ~(h[i] = "." /\ h[i + 1] = ".")}

TrustUrls ==
  {Url(FALSE, "", <<>>)}
  \cup {Url(TRUE, protocol, h) : protocol \in {"http:", "https:"}, h \in Hostnames}

\* the url to check is given
InitTrust ==
  /\ registry = <<>>
  /\ registryMetadata = InitMetadata
  /\ lastMerge = NoMerge
  /\ cache = <<>>
  /\ trustCheck \in {[NoTrustCheck EXCEPT !.url = url] : url \in TrustUrls}
  /\ cacheCall = NoCacheCall
  /\ versionCheck = NoVersionCheck
  /\ getCall = NoGetCall
  /\ searchCall = NoSearchCall
  /\ configCall = NoConfigCall
  /\ variantCall = NoVariantCall
  /\ NoCalls

\* lines 323-338 applied to it
TrustCheck ==
  /\ ~trustCheck.done
  /\ trustCheck' = [trustCheck EXCEPT !.done = TRUE,
                                      !.verdict = isTrustedDomain(trustCheck.url)]
  /\ UNCHANGED <<registry, registryMetadata, lastMerge, syncVars, cacheCall,
                 versionCheck, getCall, searchCall, configCall, variantCall>>

NextTrust == TrustCheck

SpecTrust == InitTrust /\ [][NextTrust]_vars

----------------------------------------------------------------------------
(* The cache on its own: writes, lookups, time passing and files that get  *)
(* damaged                                                                 *)

UrlGithub == Url(TRUE, "https:", <<"github", ".", "com">>)

CacheUrls == {UrlCdn, UrlGithub}
CacheDocs == {DocNewer, DocEmpty}

InitCache ==
  /\ registry = <<>>
  /\ registryMetadata = InitMetadata
  /\ lastMerge = NoMerge
  /\ cache = <<>>
  /\ trustCheck = NoTrustCheck
  /\ cacheCall = NoCacheCall
  /\ versionCheck = NoVersionCheck
  /\ getCall = NoGetCall
  /\ searchCall = NoSearchCall
  /\ configCall = NoConfigCall
  /\ variantCall = NoVariantCall
  /\ NoCalls

\* lines 262-276 applied to url and data; writeOk says whether
\* ensureCacheDirectory and writeFileSync get through
CacheSave(url, data, writeOk) ==
  /\ cache' = saveToCache(cache, url, data, now, writeOk)
  /\ cacheCall' = [op |-> "save", url |-> url, at |-> now, before |-> cache,
                   data |-> data, writeOk |-> writeOk, returned |-> Null]
  /\ UNCHANGED <<registry, registryMetadata, lastMerge, trustCheck, versionCheck,
                 getCall, searchCall, configCall, variantCall, disk, now, started, turn, pc, syncOptions, result,
                 fetchState, call>>

\* lines 240-255 applied to url
CacheLoad(url) ==
  /\ cacheCall' = [op |-> "load", url |-> url, at |-> now, before |-> cache,
                   data |-> <<>>, writeOk |-> FALSE,
                   returned |-> loadFromCache(cache, url, now)]
  /\ UNCHANGED <<registry, registryMetadata, lastMerge, trustCheck, versionCheck,
                 getCall, searchCall, configCall, variantCall, syncVars>>

\* a cache file is damaged from outside the program
CacheDamaged(url) ==
  /\ url \in DOMAIN cache
  /\ cache[url] # Corrupt
  /\ cache' = [cache EXCEPT ![url] = Corrupt]
  /\ UNCHANGED <<registry, registryMetadata, lastMerge, ownCalls, disk, now,
                 started, turn, pc, syncOptions, result, fetchState, call>>

NextCache ==
  \/ \E url \in CacheUrls, data \in CacheDocs, writeOk \in BOOLEAN :
       CacheSave(url, data, writeOk)
  \/ \E url \in CacheUrls : CacheLoad(url)
  \/ \E url \in CacheUrls : CacheDamaged(url)
  \/ Tick

SpecCache == InitCache /\ [][NextCache]_vars

----------------------------------------------------------------------------
(* The version comparator on its own: compareVersions applied to any three *)
(* version strings                                                         *)

MaxParts == 2

\* the components: numbers, one of them of two digits, a component that is
\* no number, and the empty component of "1." or ""
Components == {"0", "2", "10", "x", ""}

VersionStrings == UNION {[1..n -> Components] : n \in 1..MaxParts}

\* the version strings all of whose components are numbers
NumericStrings == UNION {[1..n -> {"0", "2", "10"}] : n \in 1..MaxParts}

\* the three version strings are given: any two, and a numeric third
InitVersions ==
  /\ registry = <<>>
  /\ registryMetadata = InitMetadata
  /\ lastMerge = NoMerge
  /\ cache = <<>>
  /\ trustCheck = NoTrustCheck
  /\ cacheCall = NoCacheCall
  /\ \E a \in VersionStrings, b \in VersionStrings, c \in NumericStrings :
       versionCheck = [NoVersionCheck EXCEPT !.a = a, !.b = b, !.c = c]
  /\ getCall = NoGetCall
  /\ searchCall = NoSearchCall
  /\ configCall = NoConfigCall
  /\ variantCall = NoVariantCall
  /\ NoCalls

\* lines 294-307 applied to them, pair by pair
CompareAll ==
  /\ ~versionCheck.done
  /\ versionCheck' =
       [versionCheck EXCEPT
          !.done = TRUE,
          !.aa = compareVersions(versionCheck.a, versionCheck.a),
          !.ab = compareVersions(versionCheck.a, versionCheck.b),
          !.ba = compareVersions(versionCheck.b, versionCheck.a),
          !.bc = compareVersions(versionCheck.b, versionCheck.c),
          !.ac = compareVersions(versionCheck.a, versionCheck.c)]
  /\ UNCHANGED <<registry, registryMetadata, lastMerge, syncVars, trustCheck,
                 cacheCall, getCall, searchCall, configCall, variantCall>>

NextVersions == CompareAll

SpecVersions == InitVersions /\ [][NextVersions]_vars

----------------------------------------------------------------------------
(* get on a local registry, without auto-sync *)

TemplateHello == <<"Hello ", "{{name}}">>
TemplateTwice == <<"{{name}}", " on ", "{{topic}}", ", ", "{{name}}">>

\* version 1 of p has no variants; version 2 has one for the model gpt-4,
\* one for the category claude and a generic one
GetRecord1 ==
  [body |-> "L", fields |-> RequiredFields, prompt |-> TemplateHello]
GetRecord2 ==
  [body |-> "L", fields |-> RequiredFields, prompt |-> TemplateTwice,
   variants |-> ("gpt-4" :> <<"For GPT-4: ", "{{name}}">>)
                @@ ("claude" :> <<"For Claude: ", "{{topic}}">>)
                @@ ("generic" :> <<"For any model: ", "{{name}}">>)]

GetRegistry ==
  ("p" :> [latest |-> V2, versions |-> (V1 :> GetRecord1) @@ (V2 :> GetRecord2)])

GetIds ==
  {[base |-> "p", version |-> Null], [base |-> "p", version |-> Some(V1)],
   [base |-> "p", version |-> Some(V10)], [base |-> "q", version |-> Null]}

\* a text, the empty string, the number 0, a text with the two patterns of
\* a replacement string, a text that is itself a placeholder
GetValues ==
  {Value(FALSE, <<"X">>), Value(TRUE, <<>>), Value(TRUE, <<"0">>),
   Value(FALSE, <<"$&", "$$">>), Value(FALSE, <<"{{topic}}">>)}

\* the variable maps: no key, one key, or both keys in either order
GetVariables ==
  {<<>>}
  \cup {<<[key |-> k, value |-> v]>> : k \in Keys, v \in GetValues}
  \cup UNION {{<<[key |-> k, value |-> v1], [key |-> other, value |-> v2]>> :
                  other \in Keys \ {k}, v1 \in GetValues, v2 \in GetValues} :
                k \in Keys}

GetModels == {"undefined", "gpt-4", "claude-3-opus", "llama-3"}

GetInputs ==
  {GetOptions(model, FALSE, UrlCdn) : model \in GetModels}

InitGet ==
  /\ registry = GetRegistry
  /\ registryMetadata = InitMetadata
  /\ lastMerge = NoMerge
  /\ cache = <<>>
  /\ trustCheck = NoTrustCheck
  /\ cacheCall = NoCacheCall
  /\ versionCheck = NoVersionCheck
  /\ getCall = NoGetCall
  /\ searchCall = NoSearchCall
  /\ configCall = NoConfigCall
  /\ variantCall = NoVariantCall
  /\ NoCalls

\* the call of get, lines 761-804, for an outcome that is not the auto-sync
GetCall(id, variables, options) ==
  /\ getCall.phase = "none"
  /\ pc["fg"] = "idle"
  /\ LET r == get(registry, id, variables, options) IN
     /\ r.kind # "sync"
     /\ getCall' = [phase |-> IF r.kind = "ok" THEN "returned" ELSE "raised",
                    id |-> id, variables |-> variables, options |-> options,
                    known |-> id.base \in DOMAIN registry,
                    syncs |-> 0, lookups |-> 1, outcome |-> r]
  /\ UNCHANGED <<registry, registryMetadata, lastMerge, syncVars, notGet>>

NextGet ==
  \E id \in GetIds, variables \in GetVariables, options \in GetInputs :
     GetCall(id, variables, options)

SpecGet == InitGet /\ [][NextGet]_vars

----------------------------------------------------------------------------
(* get with auto-sync: the sync that get starts for an unknown id, and the *)
(* retry                                                                   *)

AutoSyncIds ==
  {[base |-> "p", version |-> Null], [base |-> "q", version |-> Null],
   [base |-> "q", version |-> Some(V2)]}

AutoSyncInputs ==
  {GetOptions("undefined", syncOnMissing, url) :
     syncOnMissing \in BOOLEAN, url \in SyncUrls}

\* lines 770-772 and 813-820: get finds the id unknown with syncOnMissing
\* set and calls syncAndRetryGet, which calls sync
GetCallSyncs(id, variables, options) ==
  /\ getCall.phase = "none"
  /\ pc["fg"] = "idle"
  /\ turn = "none"
  /\ get(registry, id, variables, options).kind = "sync"
  /\ SyncCall("fg", SyncOptionsOfGet(options))
  /\ getCall' = [phase |-> "syncing", id |-> id, variables |-> variables,
                 options |-> options, known |-> FALSE, syncs |-> 1,
                 lookups |-> 1, outcome |-> NoOutcome]
  /\ UNCHANGED notGet

\* lines 822-825: the sync has ended; when it raised, the catch wraps its
\* error, otherwise get is called again and what it throws is wrapped too
GetRetry ==
  /\ getCall.phase = "syncing"
  /\ pc["fg"] \in {"returned", "raised"}
  /\ IF pc["fg"] = "raised" THEN
       /\ getCall' = [getCall EXCEPT !.phase = "raised",
                                     !.outcome = SyncAndRetryFailed]
       /\ UNCHANGED <<registry, registryMetadata, lastMerge, syncVars>>
     ELSE
       LET r == get(registry, getCall.id, getCall.variables,
                    RetryOptions(getCall.options))
       IN
       IF r.kind = "sync" THEN
         /\ SyncCall("fg", SyncOptionsOfGet(RetryOptions(getCall.options)))
         /\ getCall' = [getCall EXCEPT !.syncs = @ + 1, !.lookups = @ + 1]
       ELSE
         /\ getCall' = [getCall EXCEPT
                          !.phase = IF r.kind = "ok" THEN "returned" ELSE "raised",
                          !.lookups = @ + 1,
                          !.outcome = IF r.kind = "ok" THEN r
                                      ELSE SyncAndRetryFailed]
         /\ UNCHANGED <<registry, registryMetadata, lastMerge, syncVars>>
  /\ UNCHANGED notGet

NextAutoSync ==
  \/ \E id \in AutoSyncIds, options \in AutoSyncInputs : GetCall(id, <<>>, options)
  \/ \E id \in AutoSyncIds, options \in AutoSyncInputs :
       GetCallSyncs(id, <<>>, options)
  \/ SecondLookup("fg")
  \/ \E outcome \in Outcomes \ {"ok"} : FetchFails("fg", outcome)
  \/ \E data \in ServerDocs, cacheOk \in BOOLEAN, diskOk \in BOOLEAN :
       FetchReturns("fg", data, cacheOk, diskOk)
  \/ BackoffDone("fg")
  \/ TimeoutFires("fg")
  \/ GetRetry
  \/ Tick

SpecAutoSync == Init /\ [][NextAutoSync]_vars

----------------------------------------------------------------------------
(* Properties of one call of mergeRegistries, stated on lastMerge: the     *)
(* registry before the call, the remote document, the strategy and the     *)
(* returned counts, against the registry after the call                    *)

Before == lastMerge.before
Remote == lastMerge.remote

NewIds    == {id \in DOMAIN Remote : id \notin DOMAIN Before}
CommonIds == DOMAIN Remote \cap DOMAIN Before

RemoteNewerIds ==
  {id \in CommonIds : compareVersions(Before[id].latest, Remote[id].latest) < 0}
LocalNewerOrEqualIds ==
  {id \in CommonIds : compareVersions(Before[id].latest, Remote[id].latest) >= 0}

PreferRemote == lastMerge.strategy = "prefer-remote"
KeepLocal    == lastMerge.strategy \in {"prefer-local", "interactive"}

\* the version keys both sides have for id, with records that differ
Contested(id) ==
  {v \in DOMAIN Before[id].versions \cap DOMAIN Remote[id].versions :
     Before[id].versions[v] # Remote[id].versions[v]}

\* the remote version keys of id that compare greater than the local latest
GreaterThanLatest(id) ==
  {v \in DOMAIN Remote[id].versions : compareVersions(v, Before[id].latest) > 0}

\* every record the local entry of id had is still there, unchanged
RecordsKept(id) ==
  \A v \in DOMAIN Before[id].versions :
     v \in DOMAIN registry[id].versions
     /\ registry[id].versions[v] = Before[id].versions[v]

Warned(id, v) ==
  \E i \in 1..Len(lastMerge.warnings) :
     lastMerge.warnings[i] = [id |-> id, version |-> v]

\* C1: every id that the remote document has and the local one lacks is
\* copied into local as the remote entry (latest and all version records),
\* and newPrompts is the number of those ids, so an id that exists locally
\* is never counted as new
C1_NewEntriesCopiedAndCounted ==
  lastMerge.done =>
    /\ \A id \in NewIds : id \in DOMAIN registry /\ registry[id] = Remote[id]
    /\ lastMerge.newPrompts = Cardinality(NewIds)

C1_Witness ==
  lastMerge.done /\ NewIds # {} /\ CommonIds # {}

\* C2: under prefer-remote, an id whose remote latest is strictly newer gets
\* the remote latest and every remote version with the remote's record, and
\* updatedPrompts counts exactly those ids; it stays 0 under the other
\* strategies
C2_PreferRemoteAdoptsRemote ==
  lastMerge.done =>
    /\ PreferRemote =>
         \A id \in RemoteNewerIds :
            /\ registry[id].latest = Remote[id].latest
            /\ \A v \in DOMAIN Remote[id].versions :
                  v \in DOMAIN registry[id].versions
                  /\ registry[id].versions[v] = Remote[id].versions[v]
    /\ lastMerge.updatedPrompts =
         (IF PreferRemote THEN Cardinality(RemoteNewerIds) ELSE 0)

C2_Witness ==
  /\ lastMerge.done /\ PreferRemote
  /\ \E id \in RemoteNewerIds : Contested(id) # {}

\* C3 as stated: under prefer-local or interactive, for an id whose remote
\* latest is strictly newer, the local latest stays, every remote version
\* that compares greater than the local latest is present locally and has a
\* warning naming the id and the version, and the other remote versions
\* are left unmerged
C3_WarningForEveryGreaterVersion ==
  (lastMerge.done /\ KeepLocal) =>
    \A id \in RemoteNewerIds :
       /\ registry[id].latest = Before[id].latest
       /\ \A v \in GreaterThanLatest(id) :
             v \in DOMAIN registry[id].versions /\ Warned(id, v)
       /\ \A v \in DOMAIN Remote[id].versions \ GreaterThanLatest(id) :
             v \notin DOMAIN Before[id].versions
               => v \notin DOMAIN registry[id].versions
       /\ RecordsKept(id)

\* C3 amended: as C3, but the warning is appended exactly for the greater
\* versions that were absent locally, which are copied with the remote's
\* record; a greater version that is already present locally keeps its
\* local record and gets no warning
C3_WarningForEveryAddedVersion ==
  (lastMerge.done /\ KeepLocal) =>
    \A id \in RemoteNewerIds :
       /\ registry[id].latest = Before[id].latest
       /\ \A v \in GreaterThanLatest(id) :
             /\ v \in DOMAIN registry[id].versions
             /\ v \notin DOMAIN Before[id].versions
                  => registry[id].versions[v] = Remote[id].versions[v]
             /\ Warned(id, v) <=> v \notin DOMAIN Before[id].versions
       /\ \A v \in DOMAIN Remote[id].versions \ GreaterThanLatest(id) :
             /\ ~Warned(id, v)
             /\ v \notin DOMAIN Before[id].versions
                  => v \notin DOMAIN registry[id].versions
       /\ RecordsKept(id)

\* a prefer-local merge that adds a greater version, keeps a greater
\* version it already had, and leaves a not-greater remote version out
C3_Witness ==
  /\ lastMerge.done /\ KeepLocal
  /\ \E id \in RemoteNewerIds :
        /\ \E v \in GreaterThanLatest(id) : v \notin DOMAIN Before[id].versions
        /\ \E v \in DOMAIN Remote[id].versions \ GreaterThanLatest(id) :
              v \notin DOMAIN registry[id].versions

\* C4: for an id whose local latest is newer than or equal to the remote
\* latest, under every strategy the local latest stays, every remote
\* version missing locally is copied in, no local record changes, and the
\* id adds nothing to newPrompts or updatedPrompts
C4_LocalNewerOrEqualFillsGaps ==
  lastMerge.done =>
    /\ \A id \in LocalNewerOrEqualIds :
          /\ registry[id].latest = Before[id].latest
          /\ \A v \in DOMAIN Remote[id].versions \ DOMAIN Before[id].versions :
                v \in DOMAIN registry[id].versions
                /\ registry[id].versions[v] = Remote[id].versions[v]
          /\ RecordsKept(id)
    /\ lastMerge.newPrompts + lastMerge.updatedPrompts
         <= Cardinality(DOMAIN Remote \ LocalNewerOrEqualIds)

C4_Witness ==
  /\ lastMerge.done
  /\ \E id \in LocalNewerOrEqualIds :
        /\ Contested(id) # {}
        /\ DOMAIN Remote[id].versions \ DOMAIN Before[id].versions # {}
        /\ Before[id].latest # Remote[id].latest

\* C5: merging the same remote document again with the same strategy
\* reports newPrompts = 0 and updatedPrompts = 0 and leaves the registry as
\* the first merge left it
C5_MergeIdempotent ==
  lastMerge.done =>
    LET again == mergeRegistries(registry, registryMetadata.schemaVersion,
                                 Remote, lastMerge.remoteSchema,
                                 lastMerge.strategy) IN
    /\ again.registry = registry
    /\ again.newPrompts = 0
    /\ again.updatedPrompts = 0

C5_Witness ==
  /\ lastMerge.done /\ registry # Before
  /\ lastMerge.newPrompts + lastMerge.updatedPrompts > 0

\* C7: under prefer-local or interactive no local version record and no
\* latest pointer changes; a record or a pointer of an existing entry
\* changes only under prefer-remote for an id whose remote latest is
\* strictly newer
C7_LocalAuthoritativeByDefault ==
  lastMerge.done =>
    \A id \in DOMAIN Before :
       \/ /\ id \in DOMAIN registry
          /\ registry[id].latest = Before[id].latest
          /\ RecordsKept(id)
       \/ PreferRemote /\ id \in RemoteNewerIds

C7_Witness ==
  /\ lastMerge.done /\ KeepLocal
  /\ \E id \in RemoteNewerIds :
        \E v \in Contested(id) : compareVersions(v, Before[id].latest) > 0

----------------------------------------------------------------------------
(* Properties of sync invocations, stated on each invocation's position,   *)
(* options, result and history                                             *)

Terminal(s) == pc[s] \in {"returned", "raised"}

C8_ErrorPolicyDecidesRaiseOrReturn ==
  \A s \in Syncs :
     /\ pc[s] = "raised" =>
          /\ call[s].errorPolicyGiven \in {"undefined", "throw"}
          /\ call[s].raised # Null
          /\ call[s].raised[1] \in SyncErrorCodes
     /\ pc[s] = "returned" =>
          /\ result[s].success <=> result[s].errors = <<>>
          /\ ~result[s].success =>
               /\ call[s].errorPolicyGiven \in {"warn", "silent"}
               /\ Len(result[s].errors) = 1
               /\ result[s].errors[1] \in SyncErrorCodes
               /\ result[s].lastSync = Null

\* a sync under warn that got a document, failed after it and returned
C8_Witness ==
  \E s \in Syncs :
     /\ pc[s] = "returned" /\ ~result[s].success
     /\ call[s].errorPolicyGiven = "warn"
     /\ call[s].fetched # "none"

\* C9 as stated: a sync whose fetched document fails the schema validation
\* ends with the error INVALID_SCHEMA in its result, success = false, and
\* the local document as it was when the sync started
C9_SchemaRejectionIsInvalidSchema ==
  \A s \in Syncs :
     (Terminal(s) /\ call[s].fetched = "invalid") =>
        /\ ~result[s].success
        /\ result[s].errors = <<"INVALID_SCHEMA">>
        /\ registry = call[s].startRegistry

\* C10 as stated: a sync with force = false that starts while the cache
\* entry of its url is younger than the ttl makes no network request and
\* merges the cached document, and nothing else; a sync with force = true
\* of a url that has been fetched before makes a network request and does
\* not merge the cached document
C10_CacheHitMakesNoRequest ==
  \A s \in Syncs :
     /\ call[s].hitAtStart =>
          call[s].net = 0 /\ call[s].merged = <<"cache">>
     /\ (Terminal(s) /\ syncOptions[s].force /\ syncOptions[s].url \in DOMAIN cache) =>
          /\ call[s].net >= 1
          /\ \A i \in 1..Len(call[s].merged) : call[s].merged[i] # "cache"

----------------------------------------------------------------------------
(* Persistence *)

\* the ids and the version keys the invocation has added to the registry
AddedIds(s) == DOMAIN registry \ DOMAIN call[s].startRegistry

AddedVersions(s, id) ==
  DOMAIN registry[id].versions \ DOMAIN call[s].startRegistry[id].versions

\* C11 as stated: a successful sync has written the local document to
\* storage exactly when its merge reported a new or an updated prompt, on
\* the cache path as on the fetch path
C11_SavedExactlyWhenMergeChanged ==
  \A s \in Syncs :
     (pc[s] = "returned" /\ result[s].success) =>
        (call[s].wrote <=>
           (result[s].newPrompts > 0 \/ result[s].updatedPrompts > 0))

\* C12 as stated: when a sync has ended with success = true, the persisted
\* document has every entry and every version record that the sync added
\* to the registry in memory
C12_PersistedHasWhatMergeAdded ==
  \A s \in Syncs :
     (pc[s] = "returned" /\ result[s].success) =>
        /\ \A id \in AddedIds(s) :
              id \in DOMAIN disk /\ disk[id] = registry[id]
        /\ \A id \in DOMAIN call[s].startRegistry :
              \A v \in AddedVersions(s, id) :
                 /\ id \in DOMAIN disk
                 /\ v \in DOMAIN disk[id].versions
                 /\ disk[id].versions[v] = registry[id].versions[v]

----------------------------------------------------------------------------
(* Progress reports *)

Stages ==
  <<"initializing", "fetching", "validating", "comparing", "merging",
    "updating", "finalizing">>

StageRank(stage) == CHOOSE i \in 1..Len(Stages) : Stages[i] = stage

LastStage(s) == call[s].progress[Len(call[s].progress)].stage

\* C13: the stages reported by one invocation never go back in the order
\* initializing, fetching, validating, comparing, merging, updating,
\* finalizing; finalizing is reported only by a sync that succeeds; and a
\* sync that fails has reported nothing after the stage it failed in:
\* fetching for a failure of the fetcher, validating for a rejected
\* document, updating for a failed write
C13_StagesInOrder ==
  \A s \in Syncs :
     LET p == call[s].progress IN
     /\ \A i \in 1..(Len(p) - 1) : StageRank(p[i].stage) <= StageRank(p[i + 1].stage)
     /\ (\E i \in 1..Len(p) : p[i].stage = "finalizing") =>
           /\ pc[s] = "returned" /\ result[s].success
           /\ p[Len(p)].stage = "finalizing"
     /\ (Terminal(s) /\ ~result[s].success) =>
           LastStage(s) = IF call[s].fetched = "none" THEN "fetching"
                          ELSE IF call[s].fetched = "invalid" THEN "validating"
                          ELSE "updating"

\* a sync that fetched, merged, wrote and succeeded, and one has reported
\* all seven stages
C13_Witness ==
  \E s \in Syncs :
     /\ pc[s] = "returned" /\ result[s].success /\ call[s].wrote
     /\ {call[s].progress[i].stage : i \in 1..Len(call[s].progress)}
          = {Stages[i] : i \in 1..Len(Stages)}

\* C14 as stated: every percentage one invocation reports is in 0..100 and
\* none is lower than the one reported before it
C14_PercentagesNeverDecrease ==
  \A s \in Syncs :
     LET p == call[s].progress IN
     /\ \A i \in 1..Len(p) : p[i].progress \in 0..100
     /\ \A i \in 1..(Len(p) - 1) : p[i].progress <= p[i + 1].progress

----------------------------------------------------------------------------
(* Registry metadata *)

\* C15 as stated: a sync that fails leaves localVersion, lastSync, syncUrl
\* and schemaVersion of the registry metadata as they were before the call
C15_FailedSyncKeepsMetadata ==
  \A s \in Syncs :
     (Terminal(s) /\ ~result[s].success) =>
        registryMetadata = call[s].startMetadata

----------------------------------------------------------------------------
(* Trust policy *)

\* a hostname as the sequence of its dot-separated labels
RECURSIVE Labels(_)
Labels(h) ==
  IF h = <<>> THEN << <<>> >>
  ELSE LET rest == Labels(Tail(h)) IN
       IF Head(h) = "." THEN << <<>> >> \o rest
       ELSE << <<Head(h)>> \o rest[1] >> \o Tail(rest)

\* the host is the domain or a subdomain of it: its last labels are the
\* domain's labels
SameOrSubdomain(h, d) ==
  LET lh == Labels(h)
      ld == Labels(d)
  IN  /\ Len(lh) >= Len(ld)
      /\ SubSeq(lh, Len(lh) - Len(ld) + 1, Len(lh)) = ld

\* C16: isTrustedDomain(url) is true exactly when the url parses, its
\* scheme is https, and its host is an allow-listed domain or a subdomain
\* of one; a host that has an allow-listed domain as a textual suffix only
\* is rejected
C16_TrustedExactlyAllowListedHttps ==
  trustCheck.done =>
    (trustCheck.verdict <=>
       /\ trustCheck.url.parses
       /\ trustCheck.url.protocol = "https:"
       /\ \E d \in trustedDomains : SameOrSubdomain(trustCheck.url.hostname, d))

\* https://evilgithub.com has been checked and rejected
C16_Witness ==
  /\ trustCheck.done /\ ~trustCheck.verdict
  /\ trustCheck.url = Url(TRUE, "https:", <<"evil", "github", ".", "com">>)

\* C17 as stated: a sync of a url that the trust policy rejects, a url that
\* does not parse included, makes no network request and ends with the
\* error CERTIFICATE_ERROR
C17_UntrustedIsCertificateError ==
  \A s \in Syncs :
     (Terminal(s) /\ ~isTrustedDomain(syncOptions[s].url)) =>
        /\ call[s].net = 0
        /\ ~result[s].success
        /\ result[s].errors = <<"CERTIFICATE_ERROR">>

----------------------------------------------------------------------------
(* The fetcher *)

\* what the caller sees of an error the last attempt threw: the SyncError
\* itself, or a NETWORK_ERROR made from it
Observed(err) ==
  IF err \in {"NETWORK_ERROR", "TIMEOUT", "INVALID_SCHEMA", "CERTIFICATE_ERROR",
              "QUOTA_EXCEEDED"}
  THEN err ELSE "NETWORK_ERROR"

\* C18: no fetch makes more than retryAttempts requests; a fetch in which
\* an attempt succeeds, whatever attempts failed before it, hands that
\* attempt's document to sync without raising; and when every attempt has
\* failed the sync reports the error of the last attempt
C18_RetriesUpToMaxAttempts ==
  \A s \in Syncs :
     /\ call[s].net <= retryAttempts
     /\ fetchState[s].attempt <= retryAttempts
     /\ (Terminal(s) /\ call[s].fetched # "none") =>
          /\ call[s].lastAttempt = Null
          /\ \E i \in 1..Len(call[s].progress) :
                call[s].progress[i].stage = "validating"
          /\ call[s].fetched = "valid" =>
                call[s].merged[Len(call[s].merged)] = "fetch"
     /\ (Terminal(s) /\ call[s].lastAttempt # Null) =>
          /\ call[s].fetched = "none"
          /\ ~result[s].success
          /\ result[s].errors = <<Observed(call[s].lastAttempt[1])>>

\* a sync whose fetch failed twice and got its document with the third
\* request
C18_Witness ==
  \E s \in Syncs :
     /\ pc[s] = "returned" /\ result[s].success
     /\ call[s].net = retryAttempts
     /\ call[s].fetched = "valid"

\* C19 as stated: once an attempt has received a successful response, and
\* then failed on its content type, its body or its size, the fetch makes no
\* further request
C19_NoRequestAfterResponse ==
  \A s \in Syncs :
     pc[s] = "fetching" => fetchState[s].lastError \notin AfterResponseErrors

\* C20 as stated: when the timeout fires while a request is in flight, the
\* sync ends with the error TIMEOUT
C20_TimeoutIsReported ==
  \A s \in Syncs :
     (Terminal(s) /\ call[s].abortedInFlight) =>
        /\ ~result[s].success
        /\ result[s].errors = <<"TIMEOUT">>

\* C21 as stated: every sync that has a request in flight ends, with a
\* result or an error, also when the server never answers that request
C21_EverySyncTerminates ==
  \A s \in Syncs : (pc[s] = "fetching") ~> Terminal(s)

----------------------------------------------------------------------------
(* Schema version bookkeeping and schema validation *)

\* C23 as stated: after a merge of a remote document whose schema version
\* is strictly newer than the recorded one, the recorded schema version is
\* the remote's, whatever the remote's prompts are; and the recorded schema
\* version never becomes an older one
C23_SchemaVersionAdvanced ==
  lastMerge.done =>
    /\ compareVersions(lastMerge.remoteSchema, lastMerge.schemaBefore) > 0 =>
          registryMetadata.schemaVersion = lastMerge.remoteSchema
    /\ compareVersions(registryMetadata.schemaVersion, lastMerge.schemaBefore) >= 0

\* C24 as stated: validateRemoteSchema accepts a document exactly when it
\* is an object with a prompts mapping whose entries all have a latest, a
\* versions mapping with the latest as a key and a latest record with the
\* required fields, and every rejection is a SyncError INVALID_SCHEMA
C24_ValidationAcceptsExactlyWellFormed ==
  \A s \in Syncs :
     call[s].verdict # "none" =>
        /\ call[s].verdict = "ok" <=> call[s].fetched = "valid"
        /\ call[s].verdict # "ok" => call[s].verdict = "INVALID_SCHEMA"

----------------------------------------------------------------------------
(* Cache *)

\* the files hold an entry that was written for url less than a ttl
\* before t
FreshEntry(files, url, t) ==
  /\ url \in DOMAIN files
  /\ files[url] # Corrupt
  /\ files[url].url = url
  /\ t - files[url].timestamp < ttl

\* the program has left the files as they were
FilesKept(before) ==
  \A url \in DOMAIN before :
     url \in DOMAIN cache /\ (cache[url] = before[url] \/ cache[url] = Corrupt)

\* C25: a lookup returns the document of the entry written for its url
\* when that entry is younger than the ttl, and null otherwise (no file, an
\* entry of age >= ttl, a corrupt file), and it deletes nothing; a write
\* that gets through replaces the entry of its url by the document and the
\* time of the write, and a write that fails leaves the files as they were
C25_CacheLookupAndWrite ==
  /\ cacheCall.op = "load" =>
       /\ cacheCall.returned =
            (IF FreshEntry(cacheCall.before, cacheCall.url, cacheCall.at)
             THEN Some(cacheCall.before[cacheCall.url].data) ELSE Null)
       /\ FilesKept(cacheCall.before)
       /\ DOMAIN cache = DOMAIN cacheCall.before
  /\ cacheCall.op = "save" =>
       /\ FilesKept([url \in DOMAIN cacheCall.before \ {cacheCall.url} |->
                       cacheCall.before[url]])
       /\ cacheCall.writeOk =>
            /\ cacheCall.url \in DOMAIN cache
            /\ cache[cacheCall.url] \in
                 {[timestamp |-> cacheCall.at, url |-> cacheCall.url,
                   data |-> cacheCall.data], Corrupt}
       /\ ~cacheCall.writeOk =>
            /\ FilesKept(cacheCall.before)
            /\ DOMAIN cache = DOMAIN cacheCall.before

\* a lookup of an entry whose age is the ttl: it returned null and the
\* entry is still in its file
C25_Witness ==
  /\ cacheCall.op = "load" /\ cacheCall.returned = Null
  /\ cacheCall.url \in DOMAIN cacheCall.before
  /\ cacheCall.before[cacheCall.url] # Corrupt
  /\ cacheCall.at - cacheCall.before[cacheCall.url].timestamp = ttl
  /\ cache[cacheCall.url] = cacheCall.before[cacheCall.url]

----------------------------------------------------------------------------
(* Version ordering *)

\* the integer a component stands for: 0 for one that is empty or no number
IntOf(part) ==
  CASE part = "2" -> 2 [] part = "10" -> 10 [] OTHER -> 0

\* the i-th component of v padded with zeros
Padded(v, i) == IF i <= Len(v) THEN IntOf(v[i]) ELSE 0

\* the order of the padded component sequences: decided by the first
\* position at which they differ
FirstDifference(a, b) ==
  LET n == IF Len(a) >= Len(b) THEN Len(a) ELSE Len(b)
      D == {i \in 1..n : Padded(a, i) # Padded(b, i)}
  IN  IF D = {} THEN 0
      ELSE LET i == CHOOSE j \in D : \A k \in D : j <= k
           IN  IF Padded(a, i) > Padded(b, i) THEN 1 ELSE -1

\* C26: compareVersions returns -1, 0 or 1, compareVersions(a, a) = 0,
\* compareVersions(a, b) = -compareVersions(b, a), and a <= b and b <= c
\* imply a <= c
C26_ComparatorIsTotalPreorder ==
  versionCheck.done =>
    /\ {versionCheck.aa, versionCheck.ab, versionCheck.ba, versionCheck.bc,
         versionCheck.ac} \subseteq {-1, 0, 1}
    /\ versionCheck.aa = 0
    /\ versionCheck.ab = -versionCheck.ba
    /\ (versionCheck.ab <= 0 /\ versionCheck.bc <= 0) => versionCheck.ac <= 0

\* "2.10", "2" and "2.0" have been compared: the first is the greatest, the
\* other two are equal
C26_Witness ==
  /\ versionCheck.done
  /\ versionCheck.a = <<"2">> /\ versionCheck.b = <<"2", "0">>
  /\ versionCheck.c = <<"2", "10">>
  /\ versionCheck.ab = 0 /\ versionCheck.bc = -1 /\ versionCheck.ac = -1

\* C27: compareVersions gives the order of the component sequences taken
\* as integers, the shorter one padded with zeros and a component that is
\* empty or no number taken as 0, decided at the first difference from the
\* left
C27_ComparesPaddedIntegers ==
  versionCheck.done =>
    /\ versionCheck.ab = FirstDifference(versionCheck.a, versionCheck.b)
    /\ versionCheck.bc = FirstDifference(versionCheck.b, versionCheck.c)

\* "2" and "2.x" compare equal, and "10" is greater than "2"
C27_Witness ==
  /\ versionCheck.done
  /\ versionCheck.a = <<"2">> /\ versionCheck.b = <<"2", "x">>
  /\ versionCheck.c = <<"10">>
  /\ versionCheck.ab = 0 /\ versionCheck.bc = -1

----------------------------------------------------------------------------
(* get *)

\* every occurrence of the placeholder of key replaced by the text
RECURSIVE Substituted(_, _, _)
Substituted(text, key, by) ==
  IF text = <<>> THEN <<>>
  ELSE (IF Head(text) = PlaceholderOf[key] THEN by ELSE <<Head(text)>>)
       \o Substituted(Tail(text), key, by)

\* the text after the keys of the variable map have been replaced by
\* their values, one key after the other
RECURSIVE SubstitutedAll(_, _, _)
SubstitutedAll(text, variables, i) ==
  IF i > Len(variables) THEN text
  ELSE SubstitutedAll(
         Substituted(text, variables[i].key,
                     IF variables[i].value.falsy THEN <<>>
                     ELSE variables[i].value.text),
         variables, i + 1)

PlaceholdersIn(text) == {piece \in {text[i] : i \in 1..Len(text)} : IsPlaceholder(piece)}

\* the version record that the call of get is about, when it has one
GetInterpolates ==
  /\ getCall.phase \in {"returned", "raised"}
  /\ getCall.outcome.error \in {"none", "MissingVariables"}

GetPromptData ==
  LET base == registry[getCall.id.base] IN
  base.versions[IF getCall.id.version = Null THEN base.latest
                ELSE getCall.id.version[1]]

\* C28 as stated: get replaces every occurrence of {{k}}, for each key k of
\* the variable map, by the value of k (the empty string for a falsy one);
\* it fails with Missing variables, naming the placeholders still in the
\* text, exactly when there are some; and a prompt it returns has no
\* placeholder
C28_PlaceholdersReplacedByValues ==
  GetInterpolates =>
    LET expected == SubstitutedAll(getCall.outcome.template, getCall.variables, 1) IN
    /\ getCall.outcome.kind = "ok" =>
         /\ getCall.outcome.prompt = expected
         /\ PlaceholdersIn(getCall.outcome.prompt) = {}
    /\ getCall.outcome.kind = "error" =>
         /\ PlaceholdersIn(expected) # {}
         /\ {PlaceholderOf[getCall.outcome.names[i]] :
                i \in 1..Len(getCall.outcome.names)} = PlaceholdersIn(expected)

\* C30 as stated: when get is called with a model, the template it
\* interpolates is the variant selected for that model: the one keyed by
\* the model name, else by the model's category, else generic, else the
\* base prompt
C30_TemplateIsVariantOfModel ==
  (GetInterpolates /\ getCall.options.model # "undefined") =>
     getCall.outcome.template = getPromptVariant(GetPromptData, getCall.options.model)

----------------------------------------------------------------------------
(* The configuration files and the trust check under the configuration     *)
(* they give                                                                *)

DomainExample  == <<"example", ".", "com">>
DomainInternal == <<"internal", ".", "org">>

\* the lists a file supplies: one domain, two, none, and one as long as
\* the default list
SuppliedLists ==
  {<<DomainExample>>, <<DomainExample, DomainInternal>>, <<>>,
   <<DomainExample, DomainInternal, DomainExample, DomainInternal,
     DomainExample, DomainInternal>>}

\* no file, a file without security.trustedDomains, a file with a list
ConfigFiles ==
  {Null, Some([trustedDomains |-> Null])}
  \cup {Some([trustedDomains |-> Some(list)]) : list \in SuppliedLists}

ConfigUrls ==
  {Url(TRUE, "https:", <<"github", ".", "com">>),
   Url(TRUE, "https:", <<"unpkg", ".", "com">>),
   Url(TRUE, "https:", DomainExample),
   Url(TRUE, "https:", <<"docs", ".">> \o DomainInternal),
   Url(TRUE, "http:", DomainExample)}

InitConfig ==
  /\ registry \in SyncLocalDocs
  /\ registryMetadata = InitMetadata
  /\ lastMerge = NoMerge
  /\ cache = <<>>
  /\ trustCheck = NoTrustCheck
  /\ cacheCall = NoCacheCall
  /\ versionCheck = NoVersionCheck
  /\ getCall = NoGetCall
  /\ searchCall = NoSearchCall
  /\ \E homeConfig \in ConfigFiles, cwdConfig \in ConfigFiles, url \in ConfigUrls :
       configCall = [NoConfigCall EXCEPT !.homeConfig = homeConfig,
                                         !.cwdConfig = cwdConfig, !.url = url]
  /\ variantCall = NoVariantCall
  /\ NoCalls

\* line 192 and lines 323-338: the module loads its configuration, and the
\* trust check is applied to the url under it
LoadConfig ==
  /\ ~configCall.done
  /\ LET config == loadConfig(configCall.homeConfig, configCall.cwdConfig) IN
     configCall' =
       [configCall EXCEPT
          !.done = TRUE,
          !.domains = config.trustedDomains,
          !.verdict = TrustedUnder({config.trustedDomains[i] :
                                      i \in DOMAIN config.trustedDomains},
                                   configCall.url)]
  /\ UNCHANGED <<registry, registryMetadata, lastMerge, syncVars, trustCheck,
                 cacheCall, versionCheck, getCall, searchCall, variantCall>>

NextConfig == LoadConfig

SpecConfig == InitConfig /\ [][NextConfig]_vars

----------------------------------------------------------------------------
(* getPromptVariant on its own *)

\* the keys of a variants object: two model names, three categories and
\* generic
VariantKeys == {"gpt-4", "llama-3", "gpt", "claude", "gemini", "generic"}

VariantModels ==
  {"gpt-4", "gpt-4-turbo", "gpt-3.5-turbo", "claude-3-opus", "claude-2.1",
   "llama-3", "gemini-pro", "mixtral-8x7b", "unknown-model"}

\* a prompt without variants, and one with each set of keys; the variant
\* of a key is a text that names it
VariantPrompts ==
  {[prompt |-> <<"base">>]}
  \cup {[prompt |-> <<"base">>, variants |-> [k \in keys |-> <<"for ", k>>]] :
          keys \in SUBSET VariantKeys}

InitVariants ==
  /\ registry \in SyncLocalDocs
  /\ registryMetadata = InitMetadata
  /\ lastMerge = NoMerge
  /\ cache = <<>>
  /\ trustCheck = NoTrustCheck
  /\ cacheCall = NoCacheCall
  /\ versionCheck = NoVersionCheck
  /\ getCall = NoGetCall
  /\ searchCall = NoSearchCall
  /\ configCall = NoConfigCall
  /\ \E promptData \in VariantPrompts, model \in VariantModels :
       variantCall = [NoVariantCall EXCEPT !.promptData = promptData,
                                           !.model = model]
  /\ NoCalls

\* multi-llm-variants.js lines 69-93 applied to the prompt and the model
VariantCall ==
  /\ ~variantCall.done
  /\ variantCall' =
       [variantCall EXCEPT
          !.done = TRUE,
          !.returned = getPromptVariant(variantCall.promptData, variantCall.model)]
  /\ UNCHANGED <<registry, registryMetadata, lastMerge, syncVars, trustCheck,
                 cacheCall, versionCheck, getCall, searchCall, configCall>>

NextVariants == VariantCall

SpecVariants == InitVariants /\ [][NextVariants]_vars

----------------------------------------------------------------------------
(* Two invocations of sync at a time: backgroundSync and a sync of the      *)
(* application                                                              *)

OverlapInputs ==
  [url : {UrlCdn}, force : {TRUE}, errorPolicy : {"warn"},
   mergeStrategy : {"undefined", "prefer-remote"}]

\* the documents of the server: p with versions 1 and 2, p with version 10
\* and the new prompt q
OverlapServerDocs == {DocNewer, DocMixed}

\* lines 667-685: the callback that backgroundSync hands to setImmediate
\* runs and calls sync; the options are those of the call of backgroundSync
BackgroundSync(options) ==
  /\ UNCHANGED ownCalls
  /\ pc["bg"] = "idle"
  /\ turn = "none"
  /\ SyncCall("bg", options)

\* the application calls sync, whatever the background invocation is doing
ForegroundSync(options) ==
  /\ UNCHANGED ownCalls
  /\ pc["fg"] = "idle"
  /\ turn = "none"
  /\ SyncCall("fg", options)

\* no invocation is in its first part (lines 554-607), which has no await:
\* a callback of another invocation runs only when it is over
Settled == turn = "none"

NextOverlap ==
  \/ \E options \in OverlapInputs : BackgroundSync(options)
  \/ \E options \in OverlapInputs : ForegroundSync(options)
  \/ \E s \in Syncs : SecondLookup(s)
  \/ \E s \in Syncs : Settled /\ FetchFails(s, "status")
  \/ \E s \in Syncs, data \in OverlapServerDocs, diskOk \in BOOLEAN :
       Settled /\ FetchReturns(s, data, TRUE, diskOk)
  \/ \E s \in Syncs : Settled /\ BackoffDone(s)
  \/ \E s \in Syncs : Settled /\ TimeoutFires(s)
  \/ Tick

SpecOverlap == Init /\ [][NextOverlap]_vars

----------------------------------------------------------------------------
(* search, with the sync that it starts for an empty list *)

SearchMeta(description, category, tags) ==
  [description |-> description, category |-> category, tags |-> tags]

SearchRecord(meta) == [body |-> "L", fields |-> RequiredFields, meta |-> meta]

\* three prompts; the latest version of d is not the one that has the
\* words of the others
SearchRegistry ==
  ("ab" :> [latest |-> V1,
            versions |-> (V1 :> SearchRecord(SearchMeta(<<"B", "c">>, <<"x">>,
                                                        <<<<"t">>, <<"T", "a">>>>)))])
  @@ ("c" :> [latest |-> V1,
              versions |-> (V1 :> SearchRecord(SearchMeta(<<"a">>, <<"X", "y">>,
                                                          <<<<"t">>>>)))])
  @@ ("d" :> [latest |-> V2,
              versions |-> (V1 :> SearchRecord(SearchMeta(<<"a", "b">>, <<"x">>,
                                                          <<<<"t">>>>)))
                           @@ (V2 :> SearchRecord(SearchMeta(<<"z">>, <<"y">>,
                                                             <<>>)))])

SearchLocalDocs == {SearchRegistry, <<>>}

SearchTexts ==
  {<<>>, <<"a">>, <<"A", "B">>, <<"b", "c">>, <<"x">>, <<"t", "a">>, <<"y">>,
   <<"q">>, <<"b", "a">>}

\* the filters, and three of them with syncOnEmpty as a key of the query
SearchQueries ==
  {TextQuery(text) : text \in SearchTexts}
  \cup {FilterQuery(category, tags, id, "undefined") :
          category \in {Null, Some(<<"x">>), Some(<<"X">>)},
          tags \in {<<>>, <<<<"t">>>>, <<<<"t">>, <<"T", "a">>>>, <<<<"a">>>>},
          id \in {Null, Some("ab"), Some("q")}}
  \cup {FilterQuery(Null, <<>>, Some("q"), "true"),
        FilterQuery(Some(<<"X">>), <<>>, Null, "true"),
        FilterQuery(Null, <<>>, Null, "true")}

\* what the server answers to the sync of a search: a document with q, an
\* empty one, one that fails the validation
SearchServerDocs == {DocMixed, DocEmpty, DocNullEntry}

SearchInputs ==
  {SearchOptions(syncOnEmpty, UrlCdn) :
     syncOnEmpty \in {"undefined", "true", "false"}}

InitSearch ==
  /\ registry \in SearchLocalDocs
  /\ registryMetadata = InitMetadata
  /\ lastMerge = NoMerge
  /\ cache \in InitCaches
  /\ trustCheck = NoTrustCheck
  /\ cacheCall = NoCacheCall
  /\ versionCheck = NoVersionCheck
  /\ getCall = NoGetCall
  /\ searchCall = NoSearchCall
  /\ configCall = NoConfigCall
  /\ variantCall = NoVariantCall
  /\ NoCalls

\* the histories of the calls other than those of search
notSearch ==
  <<trustCheck, cacheCall, versionCheck, getCall, configCall, variantCall>>

\* lines 835-884, and 892-899 when the list is empty and syncOnEmpty is set:
\* search returns its list, or calls syncAndRetrySearch, which calls sync
SearchCall(query, options) ==
  /\ searchCall.phase = "none"
  /\ pc["fg"] = "idle"
  /\ turn = "none"
  /\ LET r == search(registry, query, options) IN
     IF r.kind = "sync" THEN
       /\ SyncCall("fg", SyncOptionsOfSearch(r.searchOptions))
       /\ searchCall' = [phase |-> "syncing", query |-> query,
                         options |-> r.searchOptions, before |-> registry,
                         syncs |-> 1, searches |-> 1, ids |-> {}]
     ELSE
       /\ searchCall' = [phase |-> "returned", query |-> query,
                         options |-> r.searchOptions, before |-> registry,
                         syncs |-> 0, searches |-> 1, ids |-> r.ids]
       /\ UNCHANGED <<registry, registryMetadata, lastMerge, syncVars>>
  /\ UNCHANGED notSearch

\* lines 901-905: the sync has ended; when it raised, the catch returns the
\* empty list, otherwise search is called again
SearchRetry ==
  /\ searchCall.phase = "syncing"
  /\ pc["fg"] \in {"returned", "raised"}
  /\ IF pc["fg"] = "raised" THEN
       /\ searchCall' = [searchCall EXCEPT !.phase = "returned", !.ids = {}]
       /\ UNCHANGED <<registry, registryMetadata, lastMerge, syncVars>>
     ELSE
       LET r == search(registry, searchCall.query,
                       RetrySearchOptions(searchCall.options))
       IN
       IF r.kind = "sync" THEN
         /\ SyncCall("fg", SyncOptionsOfSearch(r.searchOptions))
         /\ searchCall' = [searchCall EXCEPT !.syncs = @ + 1,
                                             !.searches = @ + 1]
       ELSE
         /\ searchCall' = [searchCall EXCEPT !.phase = "returned",
                                             !.searches = @ + 1,
                                             !.ids = r.ids]
         /\ UNCHANGED <<registry, registryMetadata, lastMerge, syncVars>>
  /\ UNCHANGED notSearch

NextSearch ==
  \/ \E query \in SearchQueries, options \in SearchInputs :
       SearchCall(query, options)
  \/ SecondLookup("fg")
  \/ \E outcome \in Outcomes \ {"ok"} : FetchFails("fg", outcome)
  \/ \E data \in SearchServerDocs, cacheOk \in BOOLEAN, diskOk \in BOOLEAN :
       FetchReturns("fg", data, cacheOk, diskOk)
  \/ BackoffDone("fg")
  \/ TimeoutFires("fg")
  \/ SearchRetry
  \/ Tick

SpecSearch == InitSearch /\ [][NextSearch]_vars

\* C29: a get of an unknown id with syncOnMissing set starts one sync, with
\* the error policy throw, and no second one; when the sync has succeeded it
\* looks the id up once more, and it fails when the sync has failed or the
\* id is still unknown.  With syncOnMissing unset a get of an unknown id
\* fails with a not-found error and starts no sync.
C29_AutoSyncOnceThenRetryOnce ==
  /\ getCall.syncs <= 1
  /\ started = getCall.syncs
  /\ (getCall.phase # "none" /\ ~getCall.known /\ getCall.options.syncOnMissing) =>
       /\ getCall.syncs = 1
       /\ syncOptions["fg"].errorPolicy = "throw"
       /\ getCall.phase \in {"returned", "raised"} =>
            /\ pc["fg"] \in {"returned", "raised"}
            /\ getCall.lookups = (IF pc["fg"] = "raised" THEN 1 ELSE 2)
            /\ (pc["fg"] = "raised" \/ getCall.id.base \notin DOMAIN registry) =>
                  /\ getCall.phase = "raised"
                  /\ getCall.outcome.error = "NotFoundAndSyncFailed"
  /\ (getCall.phase # "none" /\ ~getCall.known /\ ~getCall.options.syncOnMissing) =>
       /\ getCall.phase = "raised"
       /\ getCall.outcome.error = "NotFound"
       /\ getCall.syncs = 0 /\ getCall.lookups = 1

\* a get of q that was unknown: the sync fetched a document with q, and
\* the retry returned q's prompt
C29_Witness ==
  /\ getCall.phase = "returned" /\ ~getCall.known
  /\ getCall.syncs = 1 /\ getCall.lookups = 2
  /\ call["fg"].fetched = "valid"

\* C31: for a known prompt, get of an id without a version returns the
\* record of the entry's latest version, get of id@v returns the record of
\* version v when v is a key of the entry's versions and fails with the
\* version-not-available error when it is not; the id returned is
\* baseId@resolvedVersion, and get leaves the local document and the
\* registry metadata as they were.
C31_GetResolvesVersion ==
  /\ registry = GetRegistry
  /\ registryMetadata = InitMetadata
  /\ (getCall.phase # "none" /\ getCall.known) =>
       LET base     == GetRegistry[getCall.id.base]
           resolved == IF getCall.id.version = Null THEN base.latest
                       ELSE getCall.id.version[1]
       IN
       /\ (getCall.outcome.error = "VersionNotFound") <=>
            (resolved \notin DOMAIN base.versions)
       /\ resolved \notin DOMAIN base.versions => getCall.phase = "raised"
       /\ getCall.phase = "returned" =>
            /\ getCall.outcome.id =
                 Some([base |-> getCall.id.base, version |-> Some(resolved)])
            /\ getCall.outcome.record = Some(base.versions[resolved])

\* get of p@1, a version that is not the latest one, has returned its record
C31_Witness ==
  /\ getCall.phase = "returned"
  /\ getCall.id = [base |-> "p", version |-> Some(V1)]
  /\ GetRegistry["p"].latest # V1
  /\ getCall.outcome.record = Some(GetRecord1)

\* text without the difference between capital and small letters
Folded(text) ==
  [i \in 1..Len(text) |->
     CASE text[i] = "A" -> "a" [] text[i] = "B" -> "b" [] text[i] = "T" -> "t"
       [] text[i] = "X" -> "x" [] OTHER -> text[i]]

\* part occurs in text, letter case apart
Within(part, text) ==
  \E before, after \in 0..Len(text) :
     /\ before + Len(part) + after = Len(text)
     /\ \A i \in 1..Len(part) : Folded(part)[i] = Folded(text)[before + i]

\* the version record that is the latest of an entry
LatestOf(reg, id) == MetaOf(reg[id].versions[reg[id].latest])

\* the entries that a string query is to return
TextHits(reg, text) ==
  {id \in DOMAIN reg :
     \/ Within(text, IdText[id])
     \/ Within(text, LatestOf(reg, id).description)
     \/ Within(text, LatestOf(reg, id).category)
     \/ \E i \in DOMAIN LatestOf(reg, id).tags :
          Within(text, LatestOf(reg, id).tags[i])}

\* the entries that an object query is to return
FilterHits(reg, query) ==
  {id \in DOMAIN reg :
     /\ query.category # Null => LatestOf(reg, id).category = query.category[1]
     /\ {query.tags[i] : i \in DOMAIN query.tags}
          \subseteq {LatestOf(reg, id).tags[i] : i \in DOMAIN LatestOf(reg, id).tags}
     /\ query.id # Null => id = query.id[1]}

\* the entries that the query of the last search is to return from reg
Hits(reg) ==
  IF searchCall.query.kind = "string"
  THEN TextHits(reg, searchCall.query.text)
  ELSE FilterHits(reg, searchCall.query)

\* the sync that the last search started has failed
SearchSyncFailed == searchCall.syncs > 0 /\ pc["fg"] = "raised"

\* C32: a search with an object query returns exactly the entries whose
\* latest version has the category given, has every tag given and whose id
\* is the id given, whatever the options are (unless its sync has failed,
\* when it returns the empty list).
C32_FilterReturnsExactlyTheMatches ==
  (searchCall.phase = "returned" /\ searchCall.query.kind = "object"
   /\ ~SearchSyncFailed) =>
     searchCall.ids = FilterHits(registry, searchCall.query)

\* C33: a search whose query matches nothing, with syncOnEmpty set, starts
\* one sync and then searches once more; it returns the empty list when
\* that sync has failed and never raises; no search starts a second sync,
\* and a search whose query matches an entry, or without syncOnEmpty,
\* starts none.
C33_SearchSyncsOnceWhenEmpty ==
  /\ searchCall.syncs <= 1
  /\ started = searchCall.syncs
  /\ searchCall.phase \in {"none", "syncing", "returned"}
  /\ searchCall.phase # "none" =>
       IF Hits(searchCall.before) = {} /\ searchCall.options.syncOnEmpty = "true"
       THEN /\ searchCall.syncs = 1
            /\ syncOptions["fg"].errorPolicy = "throw"
            /\ searchCall.phase = "returned" =>
                 IF pc["fg"] = "raised"
                 THEN searchCall.ids = {} /\ searchCall.searches = 1
                 ELSE searchCall.searches = 2
       ELSE searchCall.syncs = 0 /\ searchCall.searches = 1

\* C34: a search with a string query returns exactly the entries that
\* have the string, letter case apart, within their id or the description,
\* the category or a tag of their latest version; the empty string returns
\* every entry (unless its sync has failed, when it returns the empty list).
C34_TextSearchReturnsExactlyTheMatches ==
  (searchCall.phase = "returned" /\ searchCall.query.kind = "string"
   /\ ~SearchSyncFailed) =>
     /\ searchCall.ids = TextHits(registry, searchCall.query.text)
     /\ searchCall.query.text = <<>> => searchCall.ids = DOMAIN registry

\* the query AB has returned the prompt ab alone: d has the text ab in a
\* version that is not its latest
C34_Witness ==
  /\ searchCall.phase = "returned"
  /\ searchCall.query = TextQuery(<<"A", "B">>)
  /\ searchCall.ids = {"ab"}
  /\ DOMAIN registry = {"ab", "c", "d"}

\* C35: every sync merges one document, the cached one or the fetched one
\* and never both, also when the cache entry passes its ttl between the two
\* lookups of the sync; a sync that succeeds has merged one.
C35_OneDocumentMergedPerSync ==
  \A s \in Syncs :
     /\ Len(call[s].merged) <= 1
     /\ (pc[s] = "returned" /\ result[s].success) => Len(call[s].merged) = 1

\* the local document after the merge that invocation s made of the
\* document it fetched, had it been made on the document doc
MergedBy(s, doc) ==
  LET m == call[s].fetchMerge[1] IN
  mergeRegistries(doc, S10, m.prompts, m.remoteVersion, m.strategy).registry

\* C36: when an invocation merges the document it fetched while another is
\* suspended in its fetch, and that one merges its document later, the
\* local document is the result of the two merges made one after the other
\* in that order on the document that the first of them found, and it is
\* the document that is on disk when the second one has written it.
C36_OverlappingSyncsMergeInTurn ==
  \A first, second \in Syncs :
     (/\ call[first].fetchMerge # Null
      /\ call[second].fetchMerge # Null
      /\ second \in call[first].fetchMerge[1].inFlight) =>
        /\ registry = MergedBy(second, MergedBy(first, call[first].fetchMerge[1].from))
        /\ call[second].wrote => disk = registry

\* the background invocation fetched the document with the new prompt q
\* and merged it while the foreground one was suspended, which then merged
\* the document with version 2 of p: the local document has both
C36_Witness ==
  /\ call["bg"].fetchMerge # Null /\ call["fg"].fetchMerge # Null
  /\ "fg" \in call["bg"].fetchMerge[1].inFlight
  /\ call["bg"].fetchMerge[1].to # call["bg"].fetchMerge[1].from
  /\ call["fg"].fetchMerge[1].to # call["fg"].fetchMerge[1].from
  /\ "q" \in DOMAIN registry
  /\ V2 \in DOMAIN registry["p"].versions

\* C37: a merge, with any strategy and after any merges, removes no prompt
\* id and no version key from the local document, and leaves the latest
\* pointer of every entry at a version that does not compare lower than
\* the one it had.
C37_MergeNeverRemovesOrLowers ==
  lastMerge.done =>
    \A id \in DOMAIN lastMerge.before :
       /\ id \in DOMAIN registry
       /\ DOMAIN lastMerge.before[id].versions \subseteq DOMAIN registry[id].versions
       /\ compareVersions(registry[id].latest, lastMerge.before[id].latest) >= 0

\* a prefer-remote merge has moved the latest pointer of an entry to a
\* higher version, and the entry still has a version that the remote
\* entry lacks
C37_Witness ==
  /\ lastMerge.done
  /\ lastMerge.strategy = "prefer-remote"
  /\ \E id \in DOMAIN lastMerge.before \cap DOMAIN lastMerge.remote :
       /\ compareVersions(registry[id].latest, lastMerge.before[id].latest) > 0
       /\ \E v \in DOMAIN lastMerge.before[id].versions :
            /\ v \notin DOMAIN lastMerge.remote[id].versions
            /\ v \in DOMAIN registry[id].versions

Supplied ==
  IF configCall.cwdConfig # Null /\ configCall.cwdConfig[1].trustedDomains # Null
  THEN configCall.cwdConfig[1].trustedDomains
  ELSE IF configCall.homeConfig # Null
          /\ configCall.homeConfig[1].trustedDomains # Null
  THEN configCall.homeConfig[1].trustedDomains
  ELSE Null

\* the url has the host, or a subdomain of the host, of one of the domains
HostUnder(url, domains) ==
  \E i \in DOMAIN domains :
     \E n \in 0..Len(url.hostname) :
        /\ SubSeq(url.hostname, n + 1, Len(url.hostname)) = domains[i]
        /\ n > 0 => url.hostname[n] = "."

\* C39: when a configuration file supplies security.trustedDomains, the
\* list in force is the list supplied, and a url whose host is under none
\* of its domains is rejected by the trust check, also when the host is one
\* of the built-in domains.
C39_SuppliedListReplacesDefaults ==
  (configCall.done /\ Supplied # Null) =>
     /\ configCall.domains = Supplied[1]
     /\ ~HostUnder(configCall.url, Supplied[1]) => ~configCall.verdict

\* the category that the library gives to the models used here
CategoryExpected ==
  ("gpt-4" :> "gpt") @@ ("gpt-4-turbo" :> "gpt") @@ ("gpt-3.5-turbo" :> "gpt")
  @@ ("claude-3-opus" :> "claude") @@ ("claude-2.1" :> "claude")
  @@ ("llama-3" :> "llama") @@ ("gemini-pro" :> "gemini")
  @@ ("mixtral-8x7b" :> "mistral") @@ ("unknown-model" :> "generic")

====
